---- MODULE Spec2Model ----
(***************************************************************************)
(* Model of the rustsible playbook execution engine.                       *)
(*                                                                         *)
(*   playbook::execute      (src/src/playbook/mod.rs)   the run over plays *)
(*   Play::execute          (src/src/playbook/play.rs)  tasks, handlers    *)
(*   Task::execute          (src/src/playbook/task.rs)  when / loop / run  *)
(*   parse_playbook         (src/src/playbook/parser.rs) the fail_fast key *)
(*                                                                         *)
(* The run is sequential.  The plays of the playbook, the tasks of a play  *)
(* and the handler bodies are input data; each is read from its input set  *)
(* when the iteration of the code reaches it (nothing executed earlier     *)
(* depends on it).  What the external collaborators answer (the condition  *)
(* evaluator, the argument renderer, the SSH connection, the module) is    *)
(* input as well: one outcome per execution, drawn when it happens.        *)
(***************************************************************************)
EXTENDS Integers, Sequences, FiniteSets, TLC

(***************************************************************************)
(* Bounds of the model.                                                    *)
(***************************************************************************)
MaxPlays == 2
MaxTasks == 2
MaxHandlers == 2
MaxItems == 2
MaxDefined == 2

(***************************************************************************)
(* Small helpers on finite maps (HashMap / Mapping).                       *)
(***************************************************************************)
EmptyMap == [k \in {} |-> 0]

MapInsert(m, k, v) == [x \in (DOMAIN m) \cup {k} |-> IF x = k THEN v ELSE m[x]]

MapInsertIfAbsent(m, k, v) == IF k \in DOMAIN m THEN m ELSE MapInsert(m, k, v)

RECURSIVE MapInsertAll(_, _, _)
MapInsertAll(m, src, keys) ==
    IF keys = {} THEN m
    ELSE LET k == CHOOSE x \in keys : TRUE
         IN  MapInsertAll(MapInsert(m, k, src[k]), src, keys \ {k})

RECURSIVE MapInsertAllIfAbsent(_, _, _)
MapInsertAllIfAbsent(m, src, keys) ==
    IF keys = {} THEN m
    ELSE LET k == CHOOSE x \in keys : TRUE
         IN  MapInsertAllIfAbsent(MapInsertIfAbsent(m, k, src[k]), src, keys \ {k})

SeqToSet(s) == {s[i] : i \in 1..Len(s)}

\* A variable's value is a YAML value; strings stand for themselves and the
\* number n is written "#n", which no string of the model is.
Num(n) == "#" \o ToString(n)

(***************************************************************************)
(* The inventory the plays run against: two hosts as filter_hosts returns  *)
(* them (snapshots carrying explicit and inherited variables).  "local"    *)
(* is reached without SSH (hostname localhost), "web1" over SSH.           *)
(***************************************************************************)
HostNames == {"web1", "local"}

Host(name) ==
    IF name = "web1"
    THEN [name |-> "web1", hostname |-> "10.0.0.1", port |-> 2222,
          variables |-> [k \in {"app"} |-> "host_app"],
          inherited_variables |-> [k \in {"env"} |-> "group_env"]]
    ELSE [name |-> "local", hostname |-> "localhost", port |-> 22,
          variables |-> EmptyMap,
          inherited_variables |-> [k \in {"app", "env"} |-> "group_" \o k]]

\* filter_hosts collects the names in a HashSet: any order, no duplicates.
HostLists ==
    {<<>>} \cup {<<h>> : h \in HostNames}
           \cup {p \in HostNames \X HostNames : p[1] # p[2]}

(***************************************************************************)
(* Host (inventory/host.rs).                                               *)
(***************************************************************************)
\* Host::new (host.rs 15-33); the names of the model hold no space, so the
\* name is kept whole.
Host_new(name) ==
    [name |-> name, hostname |-> name, port |-> 22,
     variables |-> EmptyMap, inherited_variables |-> EmptyMap]

\* Host::with_port (host.rs 35-38).
with_port(host, port) == [host EXCEPT !.port = port]

\* str::parse::<u16> on the port strings of the model.
parse_u16(value) ==
    IF value = "2023" THEN [ok |-> TRUE, value |-> 2023]
    ELSE [ok |-> FALSE, value |-> 0]

\* Host::set_variable (host.rs 53-72): ansible_host and ansible_port also set
\* the connection hostname and port.
set_variable(host, key, value) ==
    LET h1 == IF key \in {"ansible_host", "ansible_ssh_host"}
              THEN [host EXCEPT !.hostname = value]
              ELSE IF key \in {"ansible_port", "ansible_ssh_port"} /\ parse_u16(value).ok
              THEN [host EXCEPT !.port = parse_u16(value).value]
              ELSE host
    IN  [h1 EXCEPT !.variables = MapInsert(h1.variables, key, value)]

\* Variant: the inherited value is written among the host's own variables.
add_inherited_variable_as_explicit(host, key, value) ==
    [host EXCEPT !.variables = MapInsert(host.variables, key, value)]

\* Host::add_inherited_variable (host.rs 40-47): refused when the host defines
\* the key explicitly, else inserted (over any value inherited before).
add_inherited_variable(host, key, value) ==
    IF key \notin DOMAIN host.variables
    THEN [host EXCEPT !.inherited_variables =
                          MapInsert(host.inherited_variables, key, value)]
    ELSE host

NoValue == [some |-> FALSE]
Some(v) == [some |-> TRUE, value |-> v]

\* Host::get_variable (host.rs 49-51).
get_variable(host, key) ==
    IF key \in DOMAIN host.variables THEN Some(host.variables[key])
    ELSE IF key \in DOMAIN host.inherited_variables
    THEN Some(host.inherited_variables[key])
    ELSE NoValue

(***************************************************************************)
(* Inventory (inventory/mod.rs).  An inventory is [hosts, groups]: host    *)
(* name -> Host and group name -> HostGroup.  A HashMap or HashSet is      *)
(* iterated in an order the program does not control; where the order can  *)
(* show in the outcome it is a parameter (a sequence of the keys).         *)
(***************************************************************************)
NoParent == "none"

\* HostGroup::new (host.rs 117-126).
HostGroup_new(name) ==
    [name |-> name, hosts |-> {}, variables |-> EmptyMap, parent |-> NoParent,
     children |-> {}]

\* Inventory::new (mod.rs 15-24).
Inventory_new ==
    [hosts  |-> EmptyMap,
     groups |-> [g \in {"all", "ungrouped"} |-> HostGroup_new(g)]]

Perms(S) ==
    {f \in [1..Cardinality(S) -> S] : \A i, j \in DOMAIN f : i # j => f[i] # f[j]}

\* `for (key, value) in variables { host.add_inherited_variable(key, value) }`
\* (mod.rs 158-165, 192-200).
RECURSIVE inherit_from(_, _, _)
inherit_from(host, variables, keys) ==
    IF keys = {} THEN host
    ELSE LET k == CHOOSE x \in keys : TRUE
         IN  inherit_from(add_inherited_variable(host, k, variables[k]),
                          variables, keys \ {k})

\* mod.rs 155-167: the variables of "all" are offered to every host.
apply_all_vars(inv) ==
    IF "all" \in DOMAIN inv.groups
    THEN [inv EXCEPT !.hosts =
            [h \in DOMAIN inv.hosts |->
                inherit_from(inv.hosts[h], inv.groups["all"].variables,
                             DOMAIN inv.groups["all"].variables)]]
    ELSE inv

\* mod.rs 169-175: the groups that have variables.
group_vars(inv) ==
    {g \in DOMAIN inv.groups : DOMAIN inv.groups[g].variables # {}}

\* mod.rs 178-204: each group but "all" that has variables offers them to
\* the hosts it lists, the groups taken in the order `order` from i on.
RECURSIVE apply_named_group_vars(_, _, _)
apply_named_group_vars(inv, order, i) ==
    IF i > Len(order) THEN inv
    ELSE LET g == inv.groups[order[i]]
             hosts == [h \in DOMAIN inv.hosts |->
                          IF h \in g.hosts
                          THEN inherit_from(inv.hosts[h], g.variables,
                                            DOMAIN g.variables)
                          ELSE inv.hosts[h]]
         IN  apply_named_group_vars([inv EXCEPT !.hosts = hosts], order, i + 1)

\* mod.rs 215-224: the groups that are the parent of some group.
parent_child_map(inv) ==
    {inv.groups[g].parent : g \in {x \in DOMAIN inv.groups :
                                     inv.groups[x].parent # NoParent}}

\* mod.rs 233-241: the keys of the parent the child does not define are
\* added to the child's own variables.
fill_group_vars(child, parent_vars) ==
    [child EXCEPT !.variables =
        [k \in DOMAIN child.variables \cup DOMAIN parent_vars |->
            IF k \in DOMAIN child.variables THEN child.variables[k]
            ELSE parent_vars[k]]]

\* Inventory::apply_parent_group_vars (mod.rs 211-246): the parents are taken
\* in the order `order` from i on; each gives the variables it has at that
\* moment to the groups that name it as parent.
RECURSIVE apply_parent_group_vars(_, _, _)
apply_parent_group_vars(inv, order, i) ==
    IF i > Len(order) THEN inv
    ELSE IF order[i] \notin DOMAIN inv.groups
    THEN apply_parent_group_vars(inv, order, i + 1)
    ELSE LET parent_vars == inv.groups[order[i]].variables
             groups == [g \in DOMAIN inv.groups |->
                           IF inv.groups[g].parent = order[i]
                           THEN fill_group_vars(inv.groups[g], parent_vars)
                           ELSE inv.groups[g]]
         IN  apply_parent_group_vars([inv EXCEPT !.groups = groups], order, i + 1)

\* Inventory::apply_group_vars (mod.rs 151-208).
apply_group_vars(inv, group_order, parent_order) ==
    apply_parent_group_vars(
        apply_named_group_vars(apply_all_vars(inv), group_order, 1),
        parent_order, 1)

\* The orders in which apply_group_vars may come to iterate its maps.
GroupOrders(inv) == Perms(group_vars(inv) \ {"all"})
ParentOrders(inv) == Perms(parent_child_map(inv))

\* Inventory::add_group_hosts_recursive (mod.rs 124-148).  `path` holds the
\* groups whose call is still open: the code keeps no such record, and when
\* a group comes up again below itself the recursion has no end
\* (overflow |-> TRUE).
RECURSIVE add_group_hosts_recursive(_, _, _, _)
RECURSIVE add_children_hosts(_, _, _, _)
add_group_hosts_recursive(inv, group_name, result, path) ==
    IF group_name \notin DOMAIN inv.groups
    THEN [overflow |-> FALSE, result |-> result]
    ELSE IF group_name \in path
    THEN [overflow |-> TRUE, result |-> result]
    ELSE add_children_hosts(inv, inv.groups[group_name].children,
             result \cup (inv.groups[group_name].hosts \cap DOMAIN inv.hosts),
             path \cup {group_name})

\* `for child_name in &group.children { self.add_group_hosts_recursive(..) }`
\* (mod.rs 70-72, 144-146).
add_children_hosts(inv, children, result, path) ==
    IF children = {} THEN [overflow |-> FALSE, result |-> result]
    ELSE LET c == CHOOSE x \in children : TRUE
             r == add_group_hosts_recursive(inv, c, result, path)
         IN  IF r.overflow THEN r
             ELSE add_children_hosts(inv, children \ {c}, r.result, path)

\* mod.rs 44-83: the names the pattern selects.
matching_hosts(inv, pattern) ==
    IF pattern \in DOMAIN inv.groups
    THEN add_group_hosts_recursive(inv, pattern, {}, {})
    ELSE IF pattern \in DOMAIN inv.hosts
    THEN [overflow |-> FALSE, result |-> {pattern}]
    ELSE [overflow |-> FALSE, result |-> {}]

\* mod.rs 87-95: a new inventory with the selected hosts and every group.
inventory_clone(inv, result) ==
    [hosts  |-> [h \in result |-> inv.hosts[h]],
     groups |-> [g \in DOMAIN inv.groups \cup DOMAIN Inventory_new.groups |->
                    IF g \in DOMAIN inv.groups THEN inv.groups[g]
                    ELSE Inventory_new.groups[g]]]

(***************************************************************************)
(* Tasks.  when: absent, a YAML boolean, or an expression string; a loop   *)
(* source is absent or a literal list of items.                            *)
(***************************************************************************)
HandlerNames == {"restart", "reload"}

NoWhen == "none"
WhenValues == {NoWhen, "bool_true", "bool_false", "expr"}

NoLoop == [some |-> FALSE, items |-> <<>>]
LoopOf(n) == [some |-> TRUE, items |-> [i \in 1..n |-> "item" \o ToString(i)]]
LoopSources == {NoLoop} \cup {LoopOf(n) : n \in 0..MaxItems}

\* loop_control (parser.rs 311-320): loop_var renames the loop variable,
\* index_var adds an index variable; either may be absent.
NoName == "none"
LoopVarNames == {NoName, "app"}
IndexVarNames == {NoName, "idx", "app"}

NoRegister == "none"
RegisterNames == {"result_var"}

NotifyLists == {<<>>, <<"restart">>, <<"restart", "reload">>}

Tasks ==
    [ignore_errors : BOOLEAN,
     notify        : NotifyLists,
     register      : {NoRegister} \cup RegisterNames,
     when          : WhenValues,
     loop_items    : LoopSources,
     loop_var_name : LoopVarNames,
     index_var_name : IndexVarNames]

(***************************************************************************)
(* What the collaborators answer during one execution of a module:         *)
(*   cond     templar::evaluate_condition on an expression string          *)
(*   args     Task::resolve_args (an Err for a critical parameter)         *)
(*   connect  SshClient::connect                                           *)
(*   module   the module: a ModuleResult, or an Err                        *)
(* The code asks them in this order and stops at the first that ends the   *)
(* execution; an answer that is never asked is kept at its default.        *)
(***************************************************************************)
ModuleAnswers == {"ok", "changed", "failed", "changed_failed", "err"}

DefaultOracle == [cond |-> "true", args |-> "ok", connect |-> "ok", module |-> "ok"]

AllOracles ==
    {o \in [cond : {"true", "false", "err"}, args : {"ok", "err"},
            connect : {"ok", "fail"}, module : ModuleAnswers] :
        /\ (o.cond # "true" => o.args = "ok")
        /\ (o.args = "err" \/ o.cond # "true" => o.connect = "ok")
        /\ (o.connect = "fail" \/ o.args = "err" \/ o.cond # "true" => o.module = "ok")}

is_local(host) == host.hostname = "localhost" \/ host.hostname = "127.0.0.1"

Oracles(task, host) ==
    {o \in AllOracles :
        /\ (task.when # "expr" => o.cond = "true")
        /\ (task.when = "bool_false" => o = DefaultOracle)
        /\ (is_local(host) => o.connect = "ok")}

(***************************************************************************)
(* TaskResult (task.rs 17-60).  A message is the tuple of the parts it is  *)
(* formatted from (<<>> is the empty string).  The keys of `values` are    *)
(* tuples too: <<k>> for a module key, <<"item", idx, k>> for the key      *)
(* "item_{idx}.{k}".                                                       *)
(***************************************************************************)
TaskResult_new(host) ==
    [changed |-> FALSE, failed |-> FALSE, skipped |-> FALSE, msg |-> <<>>,
     host |-> host, values |-> EmptyMap]

ModuleResult(answer) ==
    [changed |-> answer \in {"changed", "changed_failed"},
     failed  |-> answer \in {"failed", "changed_failed"},
     stdout  |-> IF answer \in {"changed", "changed_failed"} THEN "out" ELSE "",
     stderr  |-> IF answer \in {"failed", "changed_failed"} THEN "err" ELSE "",
     msg     |-> <<"module", answer>>]

from_module_result(host, mr) ==
    LET v1 == IF mr.stdout # "" THEN MapInsert(EmptyMap, <<"stdout">>, mr.stdout)
              ELSE EmptyMap
        v2 == IF mr.stderr # "" THEN MapInsert(v1, <<"stderr">>, mr.stderr) ELSE v1
    IN  [changed |-> mr.changed, failed |-> mr.failed, skipped |-> FALSE,
         msg |-> mr.msg, host |-> host, values |-> v2]

Ok(r) == [ok |-> TRUE, result |-> r]
Err(m) == [ok |-> FALSE, error |-> m]

\* Variant: only an expression string is evaluated; a boolean counts as true.
evaluate_condition_strings_only(when, o) ==
    CASE when = "expr" -> IF o.cond = "err" THEN Err("condition error")
                          ELSE Ok(o.cond = "true")
      [] OTHER         -> Ok(TRUE)

\* Task::evaluate_condition (task.rs 588-605): a string goes to the evaluator,
\* a boolean is itself, anything else counts as true.
evaluate_condition(when, o) ==
    CASE when = "expr"       -> IF o.cond = "err" THEN Err("condition error")
                                ELSE Ok(o.cond = "true")
      [] when = "bool_true"  -> Ok(TRUE)
      [] when = "bool_false" -> Ok(FALSE)
      [] OTHER               -> Ok(TRUE)

\* Variant: the date/time fact replaces a variable of that name.
vars_with_date_always(vars) == MapInsert(vars, "ansible_date_time", "clock")

\* execute_module (task.rs 274-333): the date/time fact ("clock": a mapping
\* of the fields of the current time) is added unless `vars` holds the name.
vars_with_date(vars) == MapInsertIfAbsent(vars, "ansible_date_time", "clock")

\* Variant: a refused connection is reported as an unchanged, unfailed result.
execute_module_connect_unchecked(task, host, o) ==
    IF o.args = "err"
    THEN [ret |-> Err("Critical parameter template rendering failed"),
          dispatched |-> FALSE, connected |-> FALSE]
    ELSE IF ~is_local(host) /\ o.connect = "fail"
    THEN [ret |-> Ok(TaskResult_new(host.name)),
          dispatched |-> FALSE, connected |-> FALSE]
    ELSE IF o.module = "err"
    THEN [ret |-> Err("module error"), dispatched |-> TRUE,
          connected |-> ~is_local(host)]
    ELSE [ret |-> Ok(from_module_result(host.name, ModuleResult(o.module))),
          dispatched |-> TRUE, connected |-> ~is_local(host)]

\* Task::execute_module (task.rs 262-552).  `dispatched` tells whether the
\* module itself was called.
execute_module(task, host, o) ==
    IF o.args = "err"
    THEN [ret |-> Err("Critical parameter template rendering failed"),
          dispatched |-> FALSE, connected |-> FALSE]
    ELSE IF ~is_local(host) /\ o.connect = "fail"
    THEN [ret |-> Ok([TaskResult_new(host.name) EXCEPT
                        !.failed = TRUE, !.msg = <<"Failed to connect to host">>]),
          dispatched |-> FALSE, connected |-> FALSE]
    ELSE IF o.module = "err"
    THEN [ret |-> Err("module error"), dispatched |-> TRUE,
          connected |-> ~is_local(host)]
    ELSE [ret |-> Ok(from_module_result(host.name, ModuleResult(o.module))),
          dispatched |-> TRUE, connected |-> ~is_local(host)]

\* Variant: the loop variable is always called "item".
bind_loop_vars_default_name(task, vars, item, index) ==
    LET v1 == MapInsert(vars, "item", item)
    IN  IF task.index_var_name # NoName
        THEN MapInsert(v1, task.index_var_name, Num(index))
        ELSE v1

\* task.rs 153-164: the variables of one iteration, a copy of the task's
\* variables with the loop variable and then the index variable inserted.
bind_loop_vars(task, vars, item, index) ==
    LET loop_var == IF task.loop_var_name # NoName THEN task.loop_var_name
                    ELSE "item"
        v1 == MapInsert(vars, loop_var, item)
    IN  IF task.index_var_name # NoName
        THEN MapInsert(v1, task.index_var_name, Num(index))
        ELSE v1

\* Variant: the iteration writes its bindings into the task's variables.
iter_base_shared(vars, iter_vars) == iter_vars

\* task.rs 130, 158: `vars` is borrowed immutably and iter_vars is a clone
\* of it, so the next iteration starts from the same variables.
iter_base(vars, iter_vars) == vars

\* One pass of the loop body of Task::execute (task.rs 155-198), from the
\* idx-th item on (idx counts from 1; the code's index is idx - 1).
\* results: the TaskResults pushed so far; trace: what each iteration did.
RECURSIVE loop_iterations(_, _, _, _, _, _, _, _)
loop_iterations(task, host, vars, items, os, idx, results, trace) ==
    IF idx > Len(items)
    THEN [ret |-> Ok(TRUE), results |-> results, trace |-> trace, vars |-> vars]
    ELSE
      LET iter_vars == bind_loop_vars(task, vars, items[idx], idx - 1)
          base == iter_base(vars, iter_vars)
          cond == IF task.when # NoWhen THEN evaluate_condition(task.when, os[idx])
                  ELSE Ok(TRUE)
      IN  IF ~cond.ok
          THEN [ret |-> cond, results |-> results,
                trace |-> Append(trace, [vars |-> iter_vars, cond |-> "err",
                                         dispatched |-> FALSE]),
                vars |-> base]
          ELSE IF ~cond.result
          THEN loop_iterations(task, host, base, items, os, idx + 1,
                   Append(results, [TaskResult_new(host.name) EXCEPT
                                      !.skipped = TRUE,
                                      !.msg = <<"Skipped loop item due to condition">>]),
                   Append(trace, [vars |-> iter_vars, cond |-> "false",
                                  dispatched |-> FALSE]))
          ELSE
            LET m == execute_module(task, host, os[idx])
                t == [vars |-> iter_vars, cond |-> "true", dispatched |-> m.dispatched]
            IN  IF ~m.ret.ok
                THEN [ret |-> m.ret, results |-> results, trace |-> Append(trace, t),
                      vars |-> base]
                ELSE loop_iterations(task, host, base, items, os, idx + 1,
                         Append(results, m.ret.result), Append(trace, t))

RECURSIVE item_values(_, _, _)
item_values(results, idx, acc) ==
    IF idx > Len(results) THEN acc
    ELSE LET vs == results[idx].values
             prefixed == [k \in {<<"item", idx - 1, x[1]>> : x \in DOMAIN vs}
                             |-> vs[<<k[3]>>]]
         IN  item_values(results, idx + 1,
                         MapInsertAll(acc, prefixed, DOMAIN prefixed))

\* Variant: the folded result takes changed and failed from the last result.
final_result_last_only(task, host, results) ==
    LET changed == Len(results) > 0 /\ results[Len(results)].changed
        failed  == Len(results) > 0 /\ results[Len(results)].failed
        changed_count == Cardinality({i \in 1..Len(results) : results[i].changed})
        ok_count == Len(results) - changed_count
        base == [TaskResult_new(host.name) EXCEPT
                   !.changed = changed,
                   !.failed = failed /\ ~task.ignore_errors]
    IN  IF Len(results) = 1
        THEN [base EXCEPT !.msg = results[1].msg, !.values = results[1].values]
        ELSE [base EXCEPT
                !.msg = IF changed_count > 0
                        THEN <<"changed=", changed_count, " ok=", ok_count,
                               " iterations=", Len(results)>>
                        ELSE <<"ok=", ok_count, " iterations=", Len(results)>>,
                !.values = item_values(results, 1, EmptyMap)]

\* The tail of Task::execute (task.rs 216-259): fold the results into one.
final_result(task, host, results) ==
    LET changed == \E i \in 1..Len(results) : results[i].changed
        failed  == \E i \in 1..Len(results) : results[i].failed
        changed_count == Cardinality({i \in 1..Len(results) : results[i].changed})
        ok_count == Len(results) - changed_count
        base == [TaskResult_new(host.name) EXCEPT
                   !.changed = changed,
                   !.failed = failed /\ ~task.ignore_errors]
    IN  IF Len(results) = 1
        THEN [base EXCEPT !.msg = results[1].msg, !.values = results[1].values]
        ELSE [base EXCEPT
                !.msg = IF changed_count > 0
                        THEN <<"changed=", changed_count, " ok=", ok_count,
                               " iterations=", Len(results)>>
                        ELSE <<"ok=", ok_count, " iterations=", Len(results)>>,
                !.values = item_values(results, 1, EmptyMap)]

\* Task::execute (task.rs 130-260) on one host with the variables `vars`;
\* os[i] is what the collaborators answer in the i-th execution.
\* ret: Ok(TaskResult) or Err; results: the per-execution TaskResults;
\* trace: per execution, its variables, its condition, whether the module ran;
\* vars: the caller's variables as the call leaves them.
Task_execute(task, host, vars, os) ==
    IF task.loop_items.some
    THEN LET l == loop_iterations(task, host, vars, task.loop_items.items, os, 1,
                                  <<>>, <<>>)
         IN  [ret |-> IF l.ret.ok THEN Ok(final_result(task, host, l.results))
                      ELSE l.ret,
              results |-> l.results, trace |-> l.trace, vars |-> l.vars]
    ELSE
      LET cond == IF task.when # NoWhen THEN evaluate_condition(task.when, os[1])
                  ELSE Ok(TRUE)
      IN  IF ~cond.ok
          THEN [ret |-> cond, results |-> <<>>,
                trace |-> <<[vars |-> vars, cond |-> "err", dispatched |-> FALSE]>>,
                vars |-> vars]
          ELSE IF ~cond.result
          THEN LET r == [TaskResult_new(host.name) EXCEPT
                           !.skipped = TRUE, !.msg = <<"Skipped due to condition">>]
               IN  [ret |-> Ok(r), results |-> <<r>>,
                    trace |-> <<[vars |-> vars, cond |-> "false",
                                 dispatched |-> FALSE]>>,
                    vars |-> vars]
          ELSE
            LET m == execute_module(task, host, os[1])
                t == <<[vars |-> vars, cond |-> "true", dispatched |-> m.dispatched]>>
            IN  IF ~m.ret.ok
                THEN [ret |-> m.ret, results |-> <<>>, trace |-> t, vars |-> vars]
                ELSE [ret |-> Ok(final_result(task, host, <<m.ret.result>>)),
                      results |-> <<m.ret.result>>, trace |-> t, vars |-> vars]

(***************************************************************************)
(* Templates (playbook/templar.rs).  A string is the sequence of its       *)
(* pieces, each piece a run of its characters: plain text, a line break,   *)
(* the text Tera writes for the list [x, y], or one `{{ ... }}` expression *)
(* on the variable a or b.  A value is a string or the list [x, y]; a      *)
(* context maps the names it defines to values.                            *)
(***************************************************************************)
MaxPieces == 2
MAX_TEMPLATE_RECURSION == 10

TextPieces == {"x", "y", "[x, y]", "\n"}
ExprPieces == {"{{ a }}", "{{ b }}", "{{ a | trim }}"}
AllPieces == TextPieces \cup ExprPieces
Strings == UNION {[1..n -> AllPieces] : n \in 1..MaxPieces}

var_of(piece) == IF piece = "{{ b }}" THEN "b" ELSE "a"
has_filter(piece) == piece = "{{ a | trim }}"

Str(s) == [kind |-> "string", s |-> s]
Sequence(items) == [kind |-> "sequence", items |-> items]
\* A value serde_yaml parses from a rendered string that is neither a
\* sequence nor kept as the string itself.
Parsed(s) == [kind |-> "parsed", s |-> s]
\* Value::Null: what serde_yaml reads a blank text as.
Null == [kind |-> "null", s |-> <<>>]

contains_expr(s) == \E i \in DOMAIN s : s[i] \in ExprPieces
contains_newline(s) == \E i \in DOMAIN s : s[i] = "\n"

\* str::trim on a string whose only white space is its line breaks.
RECURSIVE trim(_)
trim(s) ==
    IF s = <<>> THEN s
    ELSE IF Head(s) = "\n" THEN trim(Tail(s))
    ELSE IF s[Len(s)] = "\n" THEN trim(SubSeq(s, 1, Len(s) - 1))
    ELSE s

\* One evaluation by Tera (render_str / render): every expression is
\* replaced by the text of its value; a name the context lacks, or trim on a
\* list, is an error.  The text of a value is not evaluated again.
RECURSIVE tera_render(_, _, _, _)
tera_render(s, context, i, out) ==
    IF i > Len(s) THEN [ok |-> TRUE, s |-> out]
    ELSE IF s[i] \in TextPieces
    THEN tera_render(s, context, i + 1, Append(out, s[i]))
    ELSE IF var_of(s[i]) \notin DOMAIN context
    THEN [ok |-> FALSE, s |-> <<>>]
    ELSE LET v == context[var_of(s[i])]
         IN  IF v.kind = "sequence"
             THEN IF has_filter(s[i]) THEN [ok |-> FALSE, s |-> <<>>]
                  ELSE tera_render(s, context, i + 1, Append(out, "[x, y]"))
             ELSE tera_render(s, context, i + 1,
                              out \o (IF has_filter(s[i]) THEN trim(v.s) ELSE v.s))

\* check_template_variables (templar.rs 191-246): the names of the
\* expressions that the context does not define.
check_template_variables(template, context) ==
    {var_of(template[i]) : i \in {j \in DOMAIN template :
        template[j] \in ExprPieces /\ var_of(template[j]) \notin DOMAIN context}}

\* templar.rs 29-44: an undefined name followed by " |" in the input.
filter_on_undefined(input, context) ==
    \E i \in DOMAIN input :
       /\ has_filter(input[i])
       /\ var_of(input[i]) \in check_template_variables(input, context)

\* The loop of render_value (templar.rs 78-131): `depth` passes are done and
\* `current_str` is the string they came to.
RECURSIVE render_loop(_, _, _)
render_loop(current_str, context, depth) ==
    IF depth >= MAX_TEMPLATE_RECURSION
    THEN [ok |-> TRUE, s |-> current_str, depth |-> depth]
    ELSE LET rendered == tera_render(current_str, context, 1, <<>>)
         IN  IF ~rendered.ok THEN [ok |-> FALSE, s |-> current_str, depth |-> depth + 1]
             ELSE IF rendered.s = current_str
             THEN [ok |-> TRUE, s |-> current_str, depth |-> depth + 1]
             ELSE render_loop(rendered.s, context, depth + 1)

\* templar.rs 140-187: the value the final string is read as.  None of the
\* strings of the model reads as a YAML mapping, so 148-160 keep nothing.
\* serde_yaml reads a flow sequence with line breaks before or after it as
\* the sequence: the line breaks around a document are not part of its value.
\* A text that is empty or holds line breaks only is a blank document, read
\* as Null, and 178 keeps the Null of a blank text.
parse_rendered(input, current_str) ==
    IF ~contains_expr(input) /\ current_str = input THEN Str(current_str)
    ELSE IF trim(current_str) = <<"[x, y]">> THEN Sequence(<<<<"x">>, <<"y">>>>)
    ELSE IF trim(current_str) = <<>> THEN Null
    ELSE Parsed(current_str)

\* render_value (templar.rs 19-188).  passes: the evaluations made;
\* warned: the warning of templar.rs 126-131 was written.
render_value(input, context, force_string) ==
    IF contains_expr(input) /\ filter_on_undefined(input, context)
    THEN [ok |-> FALSE, passes |-> 0, warned |-> FALSE]
    ELSE IF force_string /\ contains_newline(input)
    THEN LET r == tera_render(input, context, 1, <<>>)
         IN  IF r.ok THEN [ok |-> TRUE, value |-> Str(r.s), rendered |-> r.s,
                           passes |-> 1, warned |-> FALSE]
             ELSE [ok |-> FALSE, passes |-> 1, warned |-> FALSE]
    ELSE LET l == render_loop(input, context, 0)
         IN  IF ~l.ok THEN [ok |-> FALSE, passes |-> l.depth, warned |-> FALSE]
             ELSE [ok |-> TRUE,
                   value |-> IF force_string THEN Str(l.s)
                             ELSE parse_rendered(input, l.s),
                   rendered |-> l.s, passes |-> l.depth,
                   warned |-> l.depth >= MAX_TEMPLATE_RECURSION]

\* extract_simple_variable (task.rs 82-99): `{{ name }}` and nothing else
\* around it but white space.
extract_simple_variable(input) ==
    IF Len(trim(input)) = 1 /\ trim(input)[1] \in {"{{ a }}", "{{ b }}"}
    THEN Some(var_of(trim(input)[1]))
    ELSE NoValue

\* get_nested_value (task.rs 102-127) on a name without dots.
get_nested_value(key, context) ==
    IF key \in DOMAIN context THEN Some(context[key]) ELSE NoValue

\* Variant: a rendered string that is no list is taken as a single item
\* whether or not the source held an expression.
resolve_loop_items_any_string(items, context) ==
    IF items.kind = "sequence" THEN [ok |-> TRUE, items |-> items.items]
    ELSE
      LET key == extract_simple_variable(items.s)
          found == IF key.some THEN get_nested_value(key.value, context)
                   ELSE NoValue
      IN  IF found.some /\ found.value.kind = "sequence"
          THEN [ok |-> TRUE, items |-> found.value.items]
          ELSE LET r == render_value(items.s, context, FALSE)
               IN  IF ~r.ok
                   THEN [ok |-> FALSE, error |-> "Failed to render loop expression"]
                   ELSE IF r.value.kind = "sequence"
                   THEN [ok |-> TRUE, items |-> r.value.items]
                   ELSE [ok |-> TRUE, items |-> <<r.value.s>>]

\* Task::resolve_loop_items (task.rs 607-687) on a list or a string.
resolve_loop_items(items, context) ==
    IF items.kind = "sequence" THEN [ok |-> TRUE, items |-> items.items]
    ELSE
      LET key == extract_simple_variable(items.s)
          found == IF key.some THEN get_nested_value(key.value, context)
                   ELSE NoValue
      IN  IF found.some /\ found.value.kind = "sequence"
          THEN [ok |-> TRUE, items |-> found.value.items]
          ELSE LET r == render_value(items.s, context, FALSE)
               IN  IF ~r.ok
                   THEN [ok |-> FALSE, error |-> "Failed to render loop expression"]
                   ELSE IF r.value.kind = "sequence"
                   THEN [ok |-> TRUE, items |-> r.value.items]
                   ELSE IF r.value.kind = "string" /\ ~contains_expr(items.s)
                   THEN [ok |-> TRUE, items |-> <<r.value.s>>]
                   ELSE [ok |-> FALSE,
                         error |-> "resolved to a non-sequence value"]

(***************************************************************************)
(* Plays.  A play holds its host list (what filter_hosts returned for its  *)
(* pattern), its vars and the number of its tasks; its handlers are read   *)
(* when Play::execute reaches them.  The tasks of a play are drawn from    *)
(* PlayTasks: tasks without a loop (a loop reaches Play::execute as the    *)
(* one TaskResult that final_result folds; loops are explored by the       *)
(* specification SpecTask).                                                *)
(***************************************************************************)
PlayVars ==
    {[k \in {"app", "ansible_host"} |-> "play_" \o k]}

HandlerLists ==
    UNION {[1..n -> HandlerNames] : n \in 0..MaxHandlers}

Plays ==
    [hosts : HostLists, vars : PlayVars, num_tasks : 0..MaxTasks]

PlayTasks ==
    {t \in Tasks : /\ ~t.loop_items.some
                   /\ t.when \in {NoWhen, "expr"}
                   /\ t.loop_var_name = NoName
                   /\ t.index_var_name = NoName}

\* The body of a handler is a task; Play::execute drops what it returns, so
\* its notify list and register name play no part.
HandlerTasks ==
    {t \in PlayTasks : t.notify = <<>> /\ t.register = NoRegister /\ ~t.ignore_errors}

NullTask ==
    [ignore_errors |-> FALSE, notify |-> <<>>, register |-> NoRegister,
     when |-> NoWhen, loop_items |-> NoLoop, loop_var_name |-> NoName,
     index_var_name |-> NoName]

NullPlay == [hosts |-> <<>>, vars |-> EmptyMap, num_tasks |-> 0]

\* parse_playbook (parser.rs 34, 55-65): every play mapping that carries a
\* boolean fail_fast key sets the flag; the last one wins.
FailFastKeys == {"absent", "true", "false", "other"}

RECURSIVE parse_fail_fast(_, _, _)
parse_fail_fast(keys, i, flag) ==
    IF i > Len(keys) THEN flag
    ELSE parse_fail_fast(keys, i + 1,
             IF keys[i] = "true" THEN TRUE
             ELSE IF keys[i] = "false" THEN FALSE
             ELSE flag)

\* Variant: the play variables are inserted after the host's.
task_host_vars_play_last(play_vars, host) ==
    LET v2 == MapInsertAll(EmptyMap, host.variables, DOMAIN host.variables)
        v3 == MapInsertAllIfAbsent(v2, host.inherited_variables,
                                   DOMAIN host.inherited_variables)
        v1 == MapInsertAll(v3, play_vars, DOMAIN play_vars)
        v4 == MapInsert(v1, "ansible_hostname", host.hostname)
        v5 == MapInsert(v4, "inventory_hostname", host.name)
        v6 == MapInsert(v5, "ansible_host", host.hostname)
    IN  MapInsert(v6, "ansible_port", Num(host.port))

\* Variant: a host variable is inserted only where no play variable is.
task_host_vars_explicit_if_absent(play_vars, host) ==
    LET v1 == MapInsertAll(EmptyMap, play_vars, DOMAIN play_vars)
        v2 == MapInsertAllIfAbsent(v1, host.variables, DOMAIN host.variables)
        v3 == MapInsertAllIfAbsent(v2, host.inherited_variables,
                                   DOMAIN host.inherited_variables)
        v4 == MapInsert(v3, "ansible_hostname", host.hostname)
        v5 == MapInsert(v4, "inventory_hostname", host.name)
        v6 == MapInsert(v5, "ansible_host", host.hostname)
    IN  MapInsert(v6, "ansible_port", Num(host.port))

\* The variables a task is executed with on a host (play.rs 59-86).
task_host_vars(play_vars, host) ==
    LET v1 == MapInsertAll(EmptyMap, play_vars, DOMAIN play_vars)
        v2 == MapInsertAll(v1, host.variables, DOMAIN host.variables)
        v3 == MapInsertAllIfAbsent(v2, host.inherited_variables,
                                   DOMAIN host.inherited_variables)
        v4 == MapInsert(v3, "ansible_hostname", host.hostname)
        v5 == MapInsert(v4, "inventory_hostname", host.name)
        v6 == MapInsert(v5, "ansible_host", host.hostname)
    IN  MapInsert(v6, "ansible_port", Num(host.port))

\* The variables a handler is executed with on a host (play.rs 194-213).
handler_host_vars(play_vars, host) ==
    LET v1 == MapInsertAll(EmptyMap, play_vars, DOMAIN play_vars)
        v2 == MapInsertAll(v1, host.variables, DOMAIN host.variables)
    IN  MapInsertAllIfAbsent(v2, host.inherited_variables,
                             DOMAIN host.inherited_variables)

\* The mapping stored under the register name (play.rs 106-127).
register_value(result) ==
    LET m1 == MapInsert(EmptyMap, <<"changed">>, result.changed)
        m2 == MapInsert(m1, <<"failed">>, result.failed)
        m3 == MapInsert(m2, <<"skipped">>, result.skipped)
        m4 == IF result.msg # <<>> THEN MapInsert(m3, <<"msg">>, result.msg) ELSE m3
    IN  MapInsertAll(m4, result.values, DOMAIN result.values)

\* What the collaborators may answer over the executions of one task on one
\* host: one answer per execution, none asked after the one that raised.
Raises(o) == o.cond = "err" \/ o.args = "err" \/ o.module = "err"

Executions(task) ==
    IF task.loop_items.some THEN Len(task.loop_items.items) ELSE 1

OracleSeqs(task, host) ==
    {os \in [1..Executions(task) -> Oracles(task, host)] :
        \A i, j \in 1..Executions(task) :
            i < j /\ Raises(os[i]) => os[j] = DefaultOracle}

(***************************************************************************)
(* The decisions of the run, each as the code takes it.                    *)
(***************************************************************************)
\* Variant: the empty host list is not looked at.
no_hosts_unchecked(hosts) == FALSE

\* mod.rs 31-37: a play whose pattern matched no host is logged and skipped.
no_hosts_matched(hosts) == Len(hosts) = 0

\* Variant: a failed play always ends the run.
run_aborts_always(play_failed, flag) == play_failed

\* mod.rs 42-48: a failed play ends the run only under fail_fast.
run_aborts(play_failed, flag) == play_failed /\ flag

\* Variant: the loop stops one host early.
hosts_done_early(index, hosts) == index >= Len(hosts)

\* play.rs 57, 192: `for host in hosts` is over once every host was visited.
hosts_done(index, hosts) == index > Len(hosts)

\* play.rs 140-154: the Err of Task::execute becomes a failed result.
error_result(host, e) ==
    [TaskResult_new(host.name) EXCEPT !.failed = TRUE,
                                      !.msg = <<"Task execution error: ", e>>]

\* Variant: a result notifies whether or not it is changed.
notified_by_any_result(task, result) ==
    IF task.notify # <<>> THEN SeqToSet(task.notify) ELSE {}

\* play.rs 130-136: the names a result adds to the notified set.
notified_by(task, result) ==
    IF result.changed /\ task.notify # <<>> THEN SeqToSet(task.notify) ELSE {}

\* Variant: the play fails only when the task failed on every host.
play_should_fail_all_hosts(results_failed, task) ==
    /\ Len(results_failed) > 0
    /\ \A i \in 1..Len(results_failed) : results_failed[i]
    /\ ~task.ignore_errors

\* Variant: any failed result fails the play, ignore_errors or not.
play_should_fail_any_failed(results_failed, task) ==
    \E i \in 1..Len(results_failed) : results_failed[i]

\* play.rs 165-170: the play fails when a result of the task is failed and
\* the task does not ignore errors.
play_should_fail(results_failed, task) ==
    LET failed_count == Cardinality({i \in 1..Len(results_failed) : results_failed[i]})
    IN  failed_count > 0 /\ ~task.ignore_errors

\* play.rs 182: a handler runs when its name is in the notified set.
handler_is_notified(notified, name) == name \in notified

\* Variant: an Err of a handler is propagated like the failure of a task.
handler_error_propagates(ret) == ~ret.ok

\* play.rs 215-221: an Err of a handler is logged; the loops go on.
handler_error_aborts(ret) == FALSE

\* play.rs 237-258: one recap line per host, in host-list order.
recap_lines(hosts, failed) ==
    [i \in 1..Len(hosts) |->
        [host   |-> hosts[i],
         status |-> IF hosts[i] \in failed THEN "failed" ELSE "ok"]]

(***************************************************************************)
(* State.                                                                  *)
(*   pc                where the run stands                                *)
(*   fail_fast, num_plays   the parsed playbook (parser.rs 11-14)          *)
(*   play_index        plays taken from the playbook so far                *)
(*   tasks_started     tasks started in the run so far (at most MaxTasks)  *)
(*   play, handlers    the current play; its handlers once they are read   *)
(*   task              the current effective task or handler body          *)
(*   task_index        tasks of the play started so far                    *)
(*   host_index        position in `for host in hosts` (from 1)            *)
(*   handler_index     position in `for handler in &self.handlers`         *)
(*   task_results      the failed flag of each result of the current task  *)
(*   failed_hosts, notified_handlers   the sets Play::execute accumulates  *)
(*   host_vars         the host_vars map of the running loop body          *)
(*   play_result, run_result   "none", "ok" or "err"                       *)
(*   recap             the recap lines printed for the play                *)
(* Observation only (no action reads them):                                *)
(*   exec_log          the executions of the running play, in order        *)
(*   last_exec         the latest call of Task::execute in the running     *)
(*                     host loop and what it did                           *)
(*   registered        host -> the <<register name, task index>> of the    *)
(*                     play's tasks that completed on it                   *)
(*   play_log          how each play taken so far ended                    *)
(*   inventory         the Inventory the run was given                     *)
(*   matched           what the last filter_hosts call came to             *)
(* The recap's changed= and skipped= attributes (changed_hosts,            *)
(* _skipped_hosts) are print-only and left out.                            *)
(***************************************************************************)
VARIABLES pc, fail_fast, num_plays, play_index, tasks_started, play, handlers,
          task, task_index, host_index, handler_index, task_results,
          failed_hosts, notified_handlers, host_vars, play_result, run_result,
          recap, exec_log, last_exec, registered, play_log, inventory, matched

vars == <<pc, fail_fast, num_plays, play_index, tasks_started, play, handlers,
          task, task_index, host_index, handler_index, task_results,
          failed_hosts, notified_handlers, host_vars, play_result, run_result,
          recap, exec_log, last_exec, registered, play_log, inventory, matched>>

\* Groups of variables an action leaves alone.
book_vars == <<fail_fast, num_plays, inventory, matched>>
run_vars  == <<play_index, tasks_started, run_result, play_log>>
play_vars == <<play, handlers>>
loop_vars == <<task, task_index, host_index, handler_index, task_results>>
acc_vars  == <<failed_hosts, notified_handlers>>
obs_vars  == <<host_vars, exec_log, last_exec, registered>>

NoExec == [kind |-> "none"]
NoMatch == [call |-> "none"]

PlayLocals ==
    /\ handlers = <<>>
    /\ task = NullTask
    /\ task_index = 0
    /\ host_index = 1
    /\ handler_index = 1
    /\ task_results = <<>>
    /\ failed_hosts = {}
    /\ notified_handlers = {}
    /\ host_vars = EmptyMap
    /\ play_result = "none"
    /\ recap = <<>>
    /\ exec_log = <<>>
    /\ last_exec = NoExec
    /\ registered = [h \in HostNames |-> {}]

PlayLocalsButExec ==
    /\ handlers = <<>>
    /\ task = NullTask
    /\ task_index = 0
    /\ host_index = 1
    /\ handler_index = 1
    /\ task_results = <<>>
    /\ failed_hosts = {}
    /\ notified_handlers = {}
    /\ host_vars = EmptyMap
    /\ play_result = "none"
    /\ recap = <<>>
    /\ exec_log = <<>>
    /\ registered = [h \in HostNames |-> {}]

Init ==
    /\ \E keys \in UNION {[1..n -> FailFastKeys] : n \in 0..MaxPlays} :
          /\ num_plays = Len(keys)
          /\ fail_fast = parse_fail_fast(keys, 1, FALSE)
    /\ pc = "run"
    /\ play_index = 0
    /\ tasks_started = 0
    /\ play = NullPlay
    /\ run_result = "none"
    /\ play_log = <<>>
    /\ inventory = Inventory_new
    /\ matched = NoMatch
    /\ PlayLocals

\* mod.rs 22-37: the next play's pattern matches no host.
SkipPlay ==
    /\ pc = "run"
    /\ play_index < num_plays
    /\ \E p \in Plays :
          /\ p.num_tasks <= MaxTasks - tasks_started
          /\ no_hosts_matched(p.hosts)
          /\ play' = p
    /\ play_index' = play_index + 1
    /\ play_log' = Append(play_log, "skipped")
    /\ UNCHANGED <<pc, book_vars, tasks_started, run_result, handlers, loop_vars,
                   acc_vars, obs_vars, play_result, recap>>

\* mod.rs 22-40, play.rs 26-38: the next play starts on its hosts.
BeginPlay ==
    /\ pc = "run"
    /\ play_index < num_plays
    /\ \E p \in Plays :
          /\ p.num_tasks <= MaxTasks - tasks_started
          /\ ~no_hosts_matched(p.hosts)
          /\ play' = p
    /\ play_index' = play_index + 1
    /\ pc' = "tasks"
    /\ handlers' = <<>>
    /\ task' = NullTask
    /\ task_index' = 0
    /\ host_index' = 1
    /\ handler_index' = 1
    /\ task_results' = <<>>
    /\ failed_hosts' = {}
    /\ notified_handlers' = {}
    /\ host_vars' = EmptyMap
    /\ play_result' = "none"
    /\ recap' = <<>>
    /\ exec_log' = <<>>
    /\ last_exec' = NoExec
    /\ registered' = [h \in HostNames |-> {}]
    /\ UNCHANGED <<book_vars, tasks_started, run_result, play_log>>

\* The lengths in bytes of the task names of the model: a short name, the
\* longest one the title line has room for, and the first one too long.
TaskNameLens == {4, 72, 73}

\* play.rs 46: the title line pads the name with 80 - name.len() - 8 stars,
\* computed in usize.  For a name of 73 bytes or more the subtraction
\* overflows: a debug build panics on it, a release build wraps to a count
\* that str::repeat rejects with a panic.
title_panics(name_len) == 80 - name_len - 8 < 0

\* play.rs 41-55: the next task of the play.  A panic in the title line ends
\* the process: Play::execute and the run never return.
BeginTask ==
    /\ pc = "tasks"
    /\ task_index < play.num_tasks
    /\ \E t \in PlayTasks : task' = t
    /\ task_index' = task_index + 1
    /\ tasks_started' = tasks_started + 1
    /\ task_results' = <<>>
    /\ host_index' = 1
    /\ \E name_len \in TaskNameLens :
          pc' = IF title_panics(name_len) THEN "panicked" ELSE "hosts"
    /\ UNCHANGED <<book_vars, play_index, run_result, play_log, play_vars,
                   handler_index, acc_vars, obs_vars, play_result, recap>>

\* play.rs 57-163: the task on the next host.
RunTaskOnHost ==
    /\ pc = "hosts"
    /\ ~hosts_done(host_index, play.hosts)
    /\ \E host \in {Host(play.hosts[host_index])} :
       \E hv \in {task_host_vars(play.vars, host)} :
       \E os \in OracleSeqs(task, host) :
       \E e \in {Task_execute(task, host, hv, os)} :
       \E result \in {IF e.ret.ok THEN e.ret.result
                       ELSE error_result(host, e.ret.error)} :
          /\ failed_hosts' = IF result.failed THEN failed_hosts \cup {host.name}
                             ELSE failed_hosts
          /\ host_vars' =
                 IF e.ret.ok /\ task.register # NoRegister
                 THEN MapInsert(hv, task.register, register_value(result))
                 ELSE hv
          /\ registered' =
                 IF e.ret.ok /\ task.register # NoRegister
                 THEN [registered EXCEPT
                         ![host.name] = @ \cup {<<task.register, task_index>>}]
                 ELSE registered
          /\ notified_handlers' =
                 IF e.ret.ok THEN notified_handlers \cup notified_by(task, result)
                 ELSE notified_handlers
          /\ task_results' = Append(task_results, result.failed)
          /\ last_exec' = [kind |-> "task", index |-> task_index,
                           host |-> host.name, vars |-> hv, ret |-> e.ret,
                           result |-> result, results |-> e.results,
                           trace |-> e.trace, oracle |-> os]
          /\ exec_log' = Append(exec_log, [kind |-> "task", index |-> task_index,
                                           host |-> host.name])
    /\ host_index' = host_index + 1
    /\ UNCHANGED <<pc, book_vars, run_vars, play_vars, task, task_index,
                   handler_index, play_result, recap>>

\* play.rs 165-170: after the last host, fail the play or go on.
CheckTaskResults ==
    /\ pc = "hosts"
    /\ hosts_done(host_index, play.hosts)
    /\ IF play_should_fail(task_results, task)
       THEN /\ play_result' = "err"
            /\ pc' = "play_done"
       ELSE /\ play_result' = play_result
            /\ pc' = "tasks"
    /\ task' = NullTask
    /\ task_results' = <<>>
    /\ host_vars' = EmptyMap
    /\ last_exec' = NoExec
    /\ UNCHANGED <<book_vars, run_vars, play_vars, task_index, host_index,
                   handler_index, acc_vars, recap, exec_log, registered>>

\* play.rs 173-179: all tasks are done; the handlers are read if any name
\* was notified.
AfterTasks ==
    /\ pc = "tasks"
    /\ task_index >= play.num_tasks
    /\ IF notified_handlers # {}
       THEN /\ \E hs \in HandlerLists : handlers' = hs
            /\ pc' = "handlers"
       ELSE /\ handlers' = handlers
            /\ pc' = "recap"
    /\ handler_index' = 1
    /\ UNCHANGED <<book_vars, run_vars, play, task, task_index, host_index,
                   task_results, acc_vars, obs_vars, play_result, recap>>

\* play.rs 179-190: the next declared handler, run only if notified.
NextHandler ==
    /\ pc = "handlers"
    /\ handler_index <= Len(handlers)
    /\ IF handler_is_notified(notified_handlers, handlers[handler_index])
       THEN /\ \E t \in HandlerTasks : task' = t
            /\ host_index' = 1
            /\ pc' = "handler_hosts"
            /\ handler_index' = handler_index
       ELSE /\ handler_index' = handler_index + 1
            /\ UNCHANGED <<task, host_index, pc>>
    /\ UNCHANGED <<book_vars, run_vars, play_vars, task_index, task_results,
                   acc_vars, obs_vars, play_result, recap>>

\* play.rs 192-222: the handler on the next host; what it returns is dropped.
RunHandlerOnHost ==
    /\ pc = "handler_hosts"
    /\ ~hosts_done(host_index, play.hosts)
    /\ \E host \in {Host(play.hosts[host_index])} :
       \E hv \in {handler_host_vars(play.vars, host)} :
       \E os \in OracleSeqs(task, host) :
       \E e \in {Task_execute(task, host, hv, os)} :
          /\ host_vars' = hv
          /\ last_exec' = [kind |-> "handler", index |-> handler_index,
                           host |-> host.name, vars |-> hv, ret |-> e.ret,
                           result |-> IF e.ret.ok THEN e.ret.result
                                      ELSE error_result(host, e.ret.error),
                           results |-> e.results, trace |-> e.trace,
                           oracle |-> os]
          /\ exec_log' = Append(exec_log, [kind |-> "handler",
                                           index |-> handler_index,
                                           host |-> host.name])
          /\ IF handler_error_aborts(e.ret)
             THEN /\ play_result' = "err"
                  /\ pc' = "play_done"
             ELSE /\ play_result' = play_result
                  /\ pc' = pc
    /\ host_index' = host_index + 1
    /\ UNCHANGED <<book_vars, run_vars, play_vars, task, task_index,
                   handler_index, task_results, acc_vars, recap, registered>>

\* play.rs 192, 222-224: the handler has run on every host.
EndHandler ==
    /\ pc = "handler_hosts"
    /\ hosts_done(host_index, play.hosts)
    /\ handler_index' = handler_index + 1
    /\ pc' = "handlers"
    /\ task' = NullTask
    /\ host_vars' = EmptyMap
    /\ last_exec' = NoExec
    /\ UNCHANGED <<book_vars, run_vars, play_vars, task_index, host_index,
                   task_results, acc_vars, play_result, recap, exec_log,
                   registered>>

\* play.rs 179, 224-227: every declared handler was visited.
AfterHandlers ==
    /\ pc = "handlers"
    /\ handler_index > Len(handlers)
    /\ pc' = "recap"
    /\ UNCHANGED <<book_vars, run_vars, play_vars, loop_vars, acc_vars, obs_vars,
                   play_result, recap>>

\* play.rs 227-262: the recap is printed and the play returns Ok.
Recap ==
    /\ pc = "recap"
    /\ recap' = recap_lines(play.hosts, failed_hosts)
    /\ play_result' = "ok"
    /\ pc' = "play_done"
    /\ UNCHANGED <<book_vars, run_vars, play_vars, loop_vars, acc_vars, obs_vars>>

\* mod.rs 40-49: Play::execute has returned; its locals are gone.
EndPlay ==
    /\ pc = "play_done"
    /\ play_log' = Append(play_log, play_result)
    /\ IF run_aborts(play_result = "err", fail_fast)
       THEN /\ run_result' = "err"
            /\ pc' = "done"
       ELSE /\ run_result' = run_result
            /\ pc' = "run"
    /\ handlers' = <<>>
    /\ task' = NullTask
    /\ task_index' = 0
    /\ host_index' = 1
    /\ handler_index' = 1
    /\ task_results' = <<>>
    /\ failed_hosts' = {}
    /\ notified_handlers' = {}
    /\ host_vars' = EmptyMap
    /\ play_result' = "none"
    /\ recap' = <<>>
    /\ exec_log' = <<>>
    /\ last_exec' = NoExec
    /\ registered' = [h \in HostNames |-> {}]
    /\ UNCHANGED <<book_vars, play_index, tasks_started, play>>

\* mod.rs 22, 51-52: no play is left; the run returns Ok.
Finish ==
    /\ pc = "run"
    /\ play_index >= num_plays
    /\ run_result' = "ok"
    /\ pc' = "done"
    /\ UNCHANGED <<book_vars, play_index, tasks_started, play_log, play_vars,
                   loop_vars, acc_vars, obs_vars, play_result, recap>>

Next ==
    \/ SkipPlay
    \/ BeginPlay
    \/ BeginTask
    \/ RunTaskOnHost
    \/ CheckTaskResults
    \/ AfterTasks
    \/ NextHandler
    \/ RunHandlerOnHost
    \/ EndHandler
    \/ AfterHandlers
    \/ Recap
    \/ EndPlay
    \/ Finish

Spec == Init /\ [][Next]_vars

(***************************************************************************)
(* SpecTask: Task::execute on its own.  The initial states hold a call     *)
(* (any task, host and answers of the collaborators); ExecuteTask runs it. *)
(***************************************************************************)
TaskInit ==
    /\ pc = "task_call"
    /\ task \in Tasks
    /\ \E h \in HostNames :
       \E os \in OracleSeqs(task, Host(h)) :
          last_exec = [kind |-> "call", host |-> h, oracle |-> os]
    /\ fail_fast = FALSE
    /\ num_plays = 0
    /\ play_index = 0
    /\ tasks_started = 0
    /\ play = NullPlay
    /\ run_result = "none"
    /\ play_log = <<>>
    /\ inventory = Inventory_new
    /\ matched = NoMatch
    /\ handlers = <<>>
    /\ task_index = 0
    /\ host_index = 1
    /\ handler_index = 1
    /\ task_results = <<>>
    /\ failed_hosts = {}
    /\ notified_handlers = {}
    /\ host_vars = EmptyMap
    /\ play_result = "none"
    /\ recap = <<>>
    /\ exec_log = <<>>
    /\ registered = [h \in HostNames |-> {}]

ExecuteTask ==
    /\ pc = "task_call"
    /\ \E host \in {Host(last_exec.host)} :
       \E pv \in PlayVars :
       \E hv \in {task_host_vars(pv, host)} :
       \E e \in {Task_execute(task, host, hv, last_exec.oracle)} :
          /\ host_vars' = e.vars
          /\ last_exec' = [kind |-> "task", index |-> 0, host |-> host.name,
                           vars |-> hv, ret |-> e.ret,
                           result |-> IF e.ret.ok THEN e.ret.result
                                      ELSE error_result(host, e.ret.error),
                           results |-> e.results, trace |-> e.trace,
                           oracle |-> last_exec.oracle]
    /\ pc' = "task_done"
    /\ UNCHANGED <<book_vars, run_vars, play_vars, loop_vars, acc_vars,
                   play_result, recap, exec_log, registered>>

TaskNext == ExecuteTask

SpecTask == TaskInit /\ [][TaskNext]_vars

(***************************************************************************)
(* SpecVars: the variables of a task on a host.  A name of VarKeys may be  *)
(* defined by the play (vars), by the host line of the inventory (set      *)
(* with set_variable) and by a group of the host (offered to the host with *)
(* add_inherited_variable); at most MaxDefined names are defined at all.   *)
(* BuildContext assembles the variables as Play::execute does and adds the *)
(* date/time fact as execute_module does.                                  *)
(***************************************************************************)
VarKeys ==
    {"app", "ansible_hostname", "inventory_hostname", "ansible_host",
     "ansible_port", "ansible_date_time"}

Layers == {"play", "host", "group"}

VarDefs ==
    {d \in [VarKeys -> SUBSET Layers] :
        Cardinality({k \in VarKeys : d[k] # {}}) <= MaxDefined}

PlayValue(k) == "play_" \o k
HostValue(k) == IF k = "ansible_port" THEN "2023" ELSE "host_" \o k
GroupValue(k) == "group_" \o k

RECURSIVE set_variables(_, _)
set_variables(host, keys) ==
    IF keys = {} THEN host
    ELSE LET k == CHOOSE x \in keys : TRUE
         IN  set_variables(set_variable(host, k, HostValue(k)), keys \ {k})

RECURSIVE add_inherited_variables(_, _)
add_inherited_variables(host, keys) ==
    IF keys = {} THEN host
    ELSE LET k == CHOOSE x \in keys : TRUE
         IN  add_inherited_variables(add_inherited_variable(host, k, GroupValue(k)),
                                     keys \ {k})

\* The host as the inventory holds it: created, its line's variables set,
\* then its group's variables offered.
HostOf(d) ==
    add_inherited_variables(
        set_variables(with_port(Host_new("web1"), 22),
                      {k \in VarKeys : "host" \in d[k]}),
        {k \in VarKeys : "group" \in d[k]})

PlayVarsOf(d) == [k \in {x \in VarKeys : "play" \in d[x]} |-> PlayValue(k)]

VarsInit ==
    /\ pc = "vars_call"
    /\ \E d \in VarDefs :
          /\ last_exec = [kind |-> "host", defs |-> d, host |-> HostOf(d)]
          /\ play = [hosts |-> <<"web1">>, vars |-> PlayVarsOf(d), num_tasks |-> 0]
    /\ fail_fast = FALSE
    /\ num_plays = 0
    /\ play_index = 0
    /\ tasks_started = 0
    /\ run_result = "none"
    /\ play_log = <<>>
    /\ inventory = Inventory_new
    /\ matched = NoMatch
    /\ PlayLocalsButExec

BuildContext ==
    /\ pc = "vars_call"
    /\ \E hv \in {task_host_vars(play.vars, last_exec.host)} :
          /\ host_vars' = hv
          /\ last_exec' = [kind |-> "context", defs |-> last_exec.defs,
                           host |-> last_exec.host,
                           render_vars |-> vars_with_date(hv)]
    /\ pc' = "vars_done"
    /\ UNCHANGED <<book_vars, run_vars, play_vars, loop_vars, acc_vars,
                   play_result, recap, exec_log, registered>>

VarsNext == BuildContext

SpecVars == VarsInit /\ [][VarsNext]_vars

(***************************************************************************)
(* SpecInv: loading an inventory and selecting hosts from it.  The initial *)
(* states hold an inventory as parse_inventory has built it just before    *)
(* its closing apply_group_vars call: the hosts h1 and h2, the groups all, *)
(* ungrouped, g1 and g2, every host in "all", a host of no section in      *)
(* "ungrouped", each group listed under at most one `:children` section    *)
(* (its own included), and one variable name, which a group or h1's line   *)
(* may define.                                                             *)
(***************************************************************************)
InvHosts == {"h1", "h2"}
NamedGroups == {"g1", "g2"}
InvGroups == {"all", "ungrouped"} \cup NamedGroups
InvKey == "color"
GroupVar(g) == "v_" \o g
Patterns == {"all", "g1", "g2", "h1", "nobody"}

\* parser.rs 60-250.  par: group -> the section that lists it as a child;
\* defs: the groups with a `:vars` line; mem: host -> the sections that
\* list it; expl: the hosts whose line sets the variable.
parse_inventory(par, defs, mem, expl) ==
    [hosts  |-> [h \in InvHosts |->
                    IF h \in expl
                    THEN set_variable(with_port(Host_new(h), 22), InvKey,
                                      "host_" \o InvKey)
                    ELSE with_port(Host_new(h), 22)],
     groups |-> [g \in InvGroups |->
                    [name      |-> g,
                     hosts     |-> IF g = "all" THEN InvHosts
                                   ELSE IF g = "ungrouped"
                                   THEN {h \in InvHosts : mem[h] = {}}
                                   ELSE {h \in InvHosts : g \in mem[h]},
                     variables |-> IF g \in defs
                                   THEN [k \in {InvKey} |-> GroupVar(g)]
                                   ELSE EmptyMap,
                     parent    |-> par[g],
                     children  |-> {c \in InvGroups : par[c] = g}]]]

ParsedInventories ==
    {parse_inventory(par, defs, mem, expl) :
        par  \in {f \in [InvGroups -> {NoParent, "all"} \cup NamedGroups] :
                     f["ungrouped"] = NoParent},
        defs \in SUBSET ({"all"} \cup NamedGroups),
        mem  \in {f \in [InvHosts -> SUBSET NamedGroups] :
                     f["h2"] \subseteq {"g2"}},
        expl \in SUBSET {"h1"}}

InvInit ==
    /\ pc = "inv_parsed"
    /\ inventory \in ParsedInventories
    /\ matched = NoMatch
    /\ fail_fast = FALSE
    /\ num_plays = 0
    /\ play_index = 0
    /\ tasks_started = 0
    /\ play = NullPlay
    /\ run_result = "none"
    /\ play_log = <<>>
    /\ PlayLocals

inv_rest == <<fail_fast, num_plays, run_vars, play_vars, loop_vars, acc_vars,
              obs_vars, play_result, recap>>

\* parser.rs 253-255: the load ends with apply_group_vars.
LoadInventory ==
    /\ pc = "inv_parsed"
    /\ \E go \in GroupOrders(inventory) :
       \E po \in ParentOrders(inventory) :
          inventory' = apply_group_vars(inventory, go, po)
    /\ pc' = "inv_loaded"
    /\ UNCHANGED <<matched, inv_rest>>

\* Inventory::filter_hosts (mod.rs 40-121), on a call that returns: the
\* selected hosts are copied to a new inventory, apply_group_vars runs on
\* it, and the copies are returned in the order of the result set.
FilterHosts ==
    /\ pc = "inv_loaded"
    /\ \E pattern \in Patterns :
       \E m \in {matching_hosts(inventory, pattern)} :
          /\ ~m.overflow
          /\ \E c \in {inventory_clone(inventory, m.result)} :
             \E go \in GroupOrders(c) :
             \E po \in ParentOrders(c) :
             \E a \in {apply_group_vars(c, go, po)} :
             \E out \in Perms(m.result) :
                matched' = [call |-> "returned", pattern |-> pattern,
                            hosts |-> [i \in DOMAIN out |-> a.hosts[out[i]]]]
    /\ pc' = "inv_filtered"
    /\ UNCHANGED <<inventory, inv_rest>>

\* Inventory::filter_hosts when add_group_hosts_recursive comes back to a
\* group it is still working on (mod.rs 70-72, 144-146): the recursion does
\* not end and the call never returns.
FilterHostsOverflow ==
    /\ pc = "inv_loaded"
    /\ \E pattern \in Patterns :
          /\ matching_hosts(inventory, pattern).overflow
          /\ matched' = [call |-> "overflow", pattern |-> pattern]
    /\ pc' = "inv_filtered"
    /\ UNCHANGED <<inventory, inv_rest>>

InvNext == LoadInventory \/ FilterHosts \/ FilterHostsOverflow

SpecInv == InvInit /\ [][InvNext]_vars

(***************************************************************************)
(* SpecRender: render_value and Task::resolve_loop_items on their own.     *)
(* The initial states hold a call: a string, a context for the names a and *)
(* b, and the force_string flag.                                           *)
(***************************************************************************)
ListXY == Sequence(<<<<"x">>, <<"y">>>>)

ValuesOfA ==
    {Str(<<"x">>), Str(<<"{{ b }}">>), Str(<<"{{ a }}">>), Str(<<"{{ a }}", "x">>),
     Str(<<"[x, y]">>), ListXY}

ValuesOfB ==
    {Str(<<"y">>), Str(<<"{{ a }}">>), Str(<<"{{ b }}", "y">>), ListXY}

Contexts ==
    {c \in UNION {[d -> ValuesOfA \cup ValuesOfB] : d \in SUBSET {"a", "b"}} :
        /\ "a" \in DOMAIN c => c["a"] \in ValuesOfA
        /\ "b" \in DOMAIN c => c["b"] \in ValuesOfB}

RenderInit ==
    /\ pc = "render_call"
    /\ \E input \in Strings :
       \E context \in Contexts :
       \E force_string \in BOOLEAN :
          last_exec = [kind |-> "render_call", input |-> input,
                       context |-> context, force_string |-> force_string]
    /\ fail_fast = FALSE
    /\ num_plays = 0
    /\ play_index = 0
    /\ tasks_started = 0
    /\ play = NullPlay
    /\ run_result = "none"
    /\ play_log = <<>>
    /\ inventory = Inventory_new
    /\ matched = NoMatch
    /\ PlayLocalsButExec

render_rest == <<book_vars, run_vars, play_vars, loop_vars, acc_vars, host_vars,
                 play_result, recap, exec_log, registered>>

\* A call of render_value (templar.rs 19).
RenderValue ==
    /\ pc = "render_call"
    /\ last_exec' = [kind |-> "rendered", input |-> last_exec.input,
                     context |-> last_exec.context,
                     force_string |-> last_exec.force_string,
                     ret |-> render_value(last_exec.input, last_exec.context,
                                          last_exec.force_string)]
    /\ pc' = "render_done"
    /\ UNCHANGED render_rest

\* A call of Task::resolve_loop_items (task.rs 607) with the string as the
\* task's loop source.
ResolveLoopString ==
    /\ pc = "render_call"
    /\ last_exec' = [kind |-> "loop_items", items |-> Str(last_exec.input),
                     context |-> last_exec.context,
                     ret |-> resolve_loop_items(Str(last_exec.input),
                                                last_exec.context)]
    /\ pc' = "render_done"
    /\ UNCHANGED render_rest

\* A call of Task::resolve_loop_items with a literal list of the strings of
\* the call as the task's loop source.
ResolveLoopList ==
    /\ pc = "render_call"
    /\ \E items \in {<<>>, <<last_exec.input>>, <<last_exec.input, <<"x">>>>} :
          last_exec' = [kind |-> "loop_items", items |-> Sequence(items),
                        context |-> last_exec.context,
                        ret |-> resolve_loop_items(Sequence(items),
                                                   last_exec.context)]
    /\ pc' = "render_done"
    /\ UNCHANGED render_rest

\* The (module, argument) pairs of the tasks of the model.
ArgSlots ==
    {<<"copy", "content">>, <<"template", "content">>, <<"user", "password">>,
     <<"debug", "msg">>, <<"copy", "dest">>}

\* task.rs 844-851.
is_critical_param(module, key) ==
    <<module, key>> \in {<<"user", "password">>, <<"copy", "content">>,
                         <<"template", "content">>}

\* Task::resolve_args (task.rs 689-870) for a task with the one argument
\* key: s (not a file mode, not debug's var).
resolve_args(module, key, s, context) ==
    LET force_string == \/ module = "template" /\ key = "content"
                        \/ module = "debug" /\ key \in {"msg", "var"}
        r == render_value(s, context, force_string)
    IN  IF r.ok THEN [ok |-> TRUE, value |-> r.value]
        ELSE IF is_critical_param(module, key)
        THEN [ok |-> FALSE, value |-> Str(s)]
        ELSE [ok |-> TRUE, value |-> Str(s)]

\* evaluate_truthiness (templar.rs 299-314): Null is false, a sequence and a
\* string are true unless empty; the other values the strings of the model
\* are read as (a string, or the mapping of an expression left as it is)
\* are not empty.
evaluate_truthiness(value) ==
    IF value.kind = "null" THEN FALSE
    ELSE IF value.kind = "sequence" THEN value.items # <<>>
    ELSE value.s # <<>>

\* templar::evaluate_condition (templar.rs 281-296) on the condition written
\* inside the expression `piece`.
templar_evaluate_condition(piece, context) ==
    LET r == render_value(<<piece>>, context, FALSE)
    IN  IF ~r.ok THEN "err"
        ELSE IF evaluate_truthiness(r.value) THEN "true" ELSE "false"

\* The parts of a templated task that are not the string of the call: a
\* when condition, an argument and a loop source, each plain or reading the
\* variable a.  The literal loop names its variable a (loop_control:
\* loop_var), so that the condition and the argument of an iteration read
\* the item; its second item is a string that itself reads b.
NoSource == [kind |-> "none"]
OtherWhens == {NoWhen, "{{ a }}"}
OtherArgs == {<<"x">>, <<"{{ a }}">>}
OtherSources == {NoSource, Sequence(<<<<"x">>, <<"{{ b }}">>>>)}
OtherSlots == {<<"copy", "content">>, <<"copy", "dest">>}

\* What the host and the module answer in every execution of the task.
HostAnswers(host) ==
    IF is_local(host)
    THEN {[connect |-> "ok", module |-> m] : m \in {"ok", "failed", "err"}}
    ELSE {[connect |-> c, module |-> "ok"] : c \in {"ok", "fail"}}

\* The task `module: key=arg` with the condition when_expr (one expression,
\* or none) looping over `items` (the resolved loop source, or no loop).
TemplatedTask(slot, arg, when_expr, loop) ==
    [ignore_errors |-> FALSE, notify |-> <<>>, register |-> NoRegister,
     when |-> IF when_expr # NoWhen THEN "expr" ELSE NoWhen,
     loop_items |-> loop,
     loop_var_name |-> IF loop.some THEN "a" ELSE NoName,
     index_var_name |-> NoName,
     module |-> slot[1], key |-> slot[2], arg |-> arg, when_expr |-> when_expr]

\* What the evaluator and resolve_args answer in the idx-th execution of the
\* task (task.rs 158-186, 336): both read the variables of the iteration.
TemplatedAnswers(t, context, idx, answers) ==
    LET iter_vars == IF t.loop_items.some
                     THEN bind_loop_vars(t, context, t.loop_items.items[idx], idx - 1)
                     ELSE context
        cond == IF t.when_expr # NoWhen
                THEN templar_evaluate_condition(t.when_expr, iter_vars)
                ELSE "true"
    IN  [cond |-> cond,
         args |-> IF cond = "true" /\ ~resolve_args(t.module, t.key, t.arg, iter_vars).ok
                  THEN "err" ELSE "ok",
         connect |-> answers.connect, module |-> answers.module]

\* Task::execute (task.rs 130-260) for a task that uses the string of the
\* call as `role` (its argument, its loop source or, one expression, its
\* when condition), and what Play::execute makes of an Err (play.rs
\* 140-155).  The variables of the task are the context of the call.
ExecuteTemplated ==
    /\ pc = "render_call"
    /\ \E role \in {"arg", "loop", "when"} :
       \E host \in {Host(h) : h \in HostNames} :
       \E answers \in HostAnswers(host) :
          /\ role = "when" => Len(last_exec.input) = 1 /\ contains_expr(last_exec.input)
          /\ \E slot \in IF role = "arg" THEN ArgSlots ELSE OtherSlots :
             \E arg \in IF role = "arg" THEN {last_exec.input} ELSE OtherArgs :
             \E when_expr \in IF role = "when" THEN {last_exec.input[1]}
                              ELSE OtherWhens :
             \E source \in IF role = "loop" THEN {Str(last_exec.input)}
                           ELSE OtherSources :
             \E l \in {IF source.kind = "none" THEN [ok |-> TRUE, items |-> <<>>]
                       ELSE resolve_loop_items(source, last_exec.context)} :
             \E t \in {TemplatedTask(slot, arg, when_expr,
                           IF source.kind = "none" \/ ~l.ok THEN NoLoop
                           ELSE [some |-> TRUE,
                                 items |-> [i \in 1..Len(l.items) |-> Str(l.items[i])]])} :
             \E e \in {IF l.ok
                       THEN Task_execute(t, host, last_exec.context,
                                [i \in 1..(Len(l.items) + 1) |->
                                    IF t.loop_items.some /\ i > Len(l.items)
                                    THEN DefaultOracle
                                    ELSE TemplatedAnswers(t, last_exec.context,
                                                          i, answers)])
                       ELSE [ret |-> Err(l.error), results |-> <<>>,
                             trace |-> <<>>, vars |-> last_exec.context]} :
                last_exec' = [kind |-> "templated", role |-> role,
                              module |-> slot[1], key |-> slot[2],
                              input |-> last_exec.input,
                              context |-> last_exec.context,
                              arg |-> arg, when_expr |-> when_expr,
                              source |-> source, host |-> host.name,
                              answers |-> answers,
                              ret |-> e.ret,
                              result |-> IF e.ret.ok THEN e.ret.result
                                         ELSE error_result(host, e.ret.error),
                              trace |-> e.trace]
    /\ pc' = "render_done"
    /\ UNCHANGED render_rest

RenderNext == RenderValue \/ ResolveLoopString \/ ResolveLoopList \/ ExecuteTemplated

SpecRender == RenderInit /\ [][RenderNext]_vars

(***************************************************************************)
(* Playbook documents: parse_playbook, parse_play, parse_task (parser.rs)  *)
(* and the escalation a play hands to the dispatch of a task (play.rs).    *)
(* A YAML mapping is the sequence of its entries in document order, each   *)
(* entry a key and a value, both tagged with their YAML type.              *)
(***************************************************************************)
MaxKeys == 4

Key(s) == [t |-> "str", s |-> s]
IntKey == [t |-> "int", s |-> "1"]
StrV(s) == [t |-> "str", s |-> s]
BoolV(b) == [t |-> "bool", s |-> IF b THEN "true" ELSE "false"]
NullV == [t |-> "null", s |-> ""]
MapV == [t |-> "map", s |-> "path"]
Absent == [t |-> "none", s |-> ""]
Entry(k, v) == [key |-> k, value |-> v]

\* The entries of a mapping value.
mapping_of(v) == <<Entry(Key(v.s), StrV("/tmp"))>>

\* Mapping::get: the value stored under a key, if any.
mapping_get(map, key) ==
    IF \E i \in 1..Len(map) : map[i].key = key
    THEN map[CHOOSE i \in 1..Len(map) : map[i].key = key].value
    ELSE Absent

\* The task fields that are not module names (parser.rs 200-201).
task_fields == {"name", "become", "become_user", "register", "when", "tags",
                "notify", "ignore_errors", "vars", "with_items", "loop",
                "loop_control"}

\* The scan for the module of a task (parser.rs 196-235), from entry i on.
RECURSIVE find_module_last(_, _)
RECURSIVE find_module(_, _)
find_module_last(task_map, i) ==
    IF i > Len(task_map)
    THEN [error |-> "", module |-> "", args |-> <<>>]
    ELSE IF task_map[i].key.t # "str" \/ task_map[i].key.s \in task_fields
    THEN find_module_last(task_map, i + 1)
    ELSE IF find_module_last(task_map, i + 1).module # ""
    THEN find_module_last(task_map, i + 1)
    ELSE IF task_map[i].value.t = "str"
    THEN [error |-> "", module |-> task_map[i].key.s,
          args |-> <<Entry(Key(IF task_map[i].key.s = "debug" THEN "msg"
                                ELSE "_raw_params"), task_map[i].value)>>]
    ELSE IF task_map[i].value.t = "map"
    THEN [error |-> "", module |-> task_map[i].key.s,
          args |-> mapping_of(task_map[i].value)]
    ELSE [error |-> "Unsupported value type for module",
          module |-> task_map[i].key.s, args |-> <<>>]

find_module(task_map, i) ==
    IF i > Len(task_map)
    THEN [error |-> "", module |-> "", args |-> <<>>]
    ELSE IF task_map[i].key.t # "str" \/ task_map[i].key.s \in task_fields
    THEN find_module(task_map, i + 1)
    ELSE IF task_map[i].value.t = "str"
    THEN [error |-> "", module |-> task_map[i].key.s,
          args |-> <<Entry(Key(IF task_map[i].key.s = "debug" THEN "msg"
                                ELSE "_raw_params"), task_map[i].value)>>]
    ELSE IF task_map[i].value.t = "map"
    THEN [error |-> "", module |-> task_map[i].key.s,
          args |-> mapping_of(task_map[i].value)]
    ELSE [error |-> "Unsupported value type for module",
          module |-> task_map[i].key.s, args |-> <<>>]

NoTask == [name |-> "", module |-> "", args |-> <<>>, is_become |-> FALSE,
           become_user |-> ""]

ParseErr(e) == [ok |-> FALSE, error |-> e, task |-> NoTask]

\* The escalation fields of a play or task mapping (parser.rs 138-148 and
\* 241-251): become counts only as a boolean, become_user only as a string.
parse_is_become(map) ==
    IF mapping_get(map, Key("become")).t = "bool"
    THEN mapping_get(map, Key("become")).s = "true"
    ELSE FALSE

parse_become_user(map) ==
    IF mapping_get(map, Key("become_user")).t = "str"
    THEN mapping_get(map, Key("become_user")).s
    ELSE "root"

\* parse_task (parser.rs 178-340).
parse_task(task_map) ==
    IF mapping_get(task_map, Key("name")).t = "none"
    THEN ParseErr("Task requires a name field")
    ELSE IF mapping_get(task_map, Key("name")).t # "str"
    THEN ParseErr("Task name must be a string")
    ELSE IF find_module(task_map, 1).error # ""
    THEN ParseErr(find_module(task_map, 1).error)
    ELSE IF find_module(task_map, 1).module = ""
    THEN ParseErr("Task doesn't specify a module to execute")
    ELSE [ok |-> TRUE, error |-> "",
          task |-> [name |-> mapping_get(task_map, Key("name")).s,
                    module |-> find_module(task_map, 1).module,
                    args |-> find_module(task_map, 1).args,
                    is_become |-> parse_is_become(task_map),
                    become_user |-> parse_become_user(task_map)]]

NoPlay == [name |-> "", hosts |-> "", tasks |-> <<>>, is_become |-> FALSE,
           become_user |-> ""]

\* parse_play (parser.rs 81-175) of a play whose tasks are one task mapping.
parse_play(play_map, task_map) ==
    IF mapping_get(play_map, Key("name")).t = "none"
    THEN [ok |-> FALSE, error |-> "Play requires a name field", play |-> NoPlay]
    ELSE IF mapping_get(play_map, Key("name")).t # "str"
    THEN [ok |-> FALSE, error |-> "Play name must be a string", play |-> NoPlay]
    ELSE IF mapping_get(play_map, Key("hosts")).t = "none"
    THEN [ok |-> FALSE, error |-> "Play requires a hosts field", play |-> NoPlay]
    ELSE IF mapping_get(play_map, Key("hosts")).t # "str"
    THEN [ok |-> FALSE, error |-> "Hosts must be a string", play |-> NoPlay]
    ELSE IF ~parse_task(task_map).ok
    THEN [ok |-> FALSE, error |-> "Failed to parse task at index 0",
          play |-> NoPlay]
    ELSE [ok |-> TRUE, error |-> "",
          play |-> [name |-> mapping_get(play_map, Key("name")).s,
                    hosts |-> mapping_get(play_map, Key("hosts")).s,
                    tasks |-> <<parse_task(task_map).task>>,
                    is_become |-> parse_is_become(play_map),
                    become_user |-> parse_become_user(play_map)]]

\* parse_playbook (parser.rs 17-78) of a playbook file, a list holding one
\* play mapping: the file is read as a Vec<Value>, so the play mapping is
\* document 0 and goes through the Mapping branch (parser.rs 54-62); the
\* error of the play is the error of the load.
parse_playbook(play_map, task_map) ==
    IF ~parse_play(play_map, task_map).ok
    THEN [ok |-> FALSE, error |-> "Failed to parse play in document 0",
          plays |-> <<>>]
    ELSE [ok |-> TRUE, error |-> "",
          plays |-> <<parse_play(play_map, task_map).play>>]

\* The task a play dispatches (play.rs 50-55).
effective_task(p, t) ==
    IF ~t.is_become /\ p.is_become
    THEN [t EXCEPT !.is_become = p.is_become, !.become_user = p.become_user]
    ELSE t

\* A task name of 73 bytes.
LongTaskName ==
    "a_task_name_that_is_too_long_for_the_title_line_of_eighty_columns_73bytes"

TaskMapEntries ==
    {Entry(Key("name"), StrV("t")),
     Entry(Key("name"), StrV(LongTaskName)),
     Entry(Key("become"), BoolV(TRUE)),
     Entry(Key("become"), BoolV(FALSE)),
     Entry(Key("become_user"), StrV("alice")),
     Entry(Key("shell"), StrV("echo")),
     Entry(Key("shell"), NullV),
     Entry(Key("debug"), StrV("hi")),
     Entry(Key("debug"), MapV),
     Entry(IntKey, StrV("n")),
     Entry(Key(""), StrV("e"))}

\* A YAML mapping has no key twice.
DistinctKeys(map) ==
    \A i, j \in 1..Len(map) : i # j => map[i].key # map[j].key

TaskMaps ==
    {m \in UNION {[1..n -> TaskMapEntries] : n \in 0..MaxKeys} : DistinctKeys(m)}

PlayMaps ==
    {<<Entry(Key("name"), StrV("p")), Entry(Key("hosts"), StrV("all"))>> \o x :
        x \in {<<>>,
               <<Entry(Key("become"), BoolV(TRUE))>>,
               <<Entry(Key("become"), BoolV(FALSE))>>,
               <<Entry(Key("become_user"), StrV("bob"))>>,
               <<Entry(Key("become"), BoolV(TRUE)),
                 Entry(Key("become_user"), StrV("bob"))>>,
               <<Entry(Key("become"), BoolV(FALSE)),
                 Entry(Key("become_user"), StrV("bob"))>>}}

ParseInit ==
    /\ pc = "parse_call"
    /\ \E play_map \in PlayMaps :
       \E task_map \in TaskMaps :
       \E h \in HostNames :
       \E connect \in IF is_local(Host(h)) THEN {"ok"} ELSE {"ok", "fail"} :
          last_exec = [kind |-> "parse_call", play_map |-> play_map,
                       task_map |-> task_map, host |-> h,
                       connect |-> connect]
    /\ fail_fast = FALSE
    /\ num_plays = 0
    /\ play_index = 0
    /\ tasks_started = 0
    /\ play = NullPlay
    /\ run_result = "none"
    /\ play_log = <<>>
    /\ inventory = Inventory_new
    /\ matched = NoMatch
    /\ PlayLocalsButExec

\* The load of the playbook (playbook/mod.rs 19).
ParsePlaybook ==
    /\ pc = "parse_call"
    /\ last_exec' = [kind |-> "parsed", play_map |-> last_exec.play_map,
                     task_map |-> last_exec.task_map,
                     host |-> last_exec.host, connect |-> last_exec.connect,
                     loaded |-> parse_playbook(last_exec.play_map,
                                               last_exec.task_map)]
    /\ pc' = IF parse_playbook(last_exec.play_map, last_exec.task_map).ok
             THEN "loaded" ELSE "load_failed"
    /\ UNCHANGED render_rest

\* The escalation a module is called with (task.rs 339-545): on a local host
\* the module runs through execute_local_command or execute_adhoc, which take
\* no escalation; over SSH it gets the task's is_become and become_user.
module_escalation(host, t) ==
    IF is_local(host)
    THEN [passed |-> FALSE, use_become |-> FALSE, become_user |-> ""]
    ELSE [passed |-> TRUE, use_become |-> t.is_become,
          become_user |-> t.become_user]

\* The play running its task on its host (play.rs 41-163, task.rs 262-545).
\* The title line panics for a long name (play.rs 46) before the effective
\* task is built; a failed connection ends the execution before the module.
\* The arguments of the model hold no template, so resolve_args leaves them
\* as they are.
DispatchTask ==
    /\ pc = "loaded"
    /\ \E p \in {last_exec.loaded.plays[1]} :
       \E e \in {effective_task(p, p.tasks[1])} :
       \E esc \in {module_escalation(Host(last_exec.host), e)} :
       \E outcome \in {IF title_panics(Len(p.tasks[1].name)) THEN "panicked"
                        ELSE IF ~is_local(Host(last_exec.host))
                                /\ last_exec.connect = "fail"
                        THEN "connect_failed"
                        ELSE "dispatched"} :
          /\ last_exec' = [kind |-> outcome,
                           play_map |-> last_exec.play_map,
                           task_map |-> last_exec.task_map,
                           host |-> last_exec.host,
                           connect |-> last_exec.connect,
                           loaded |-> last_exec.loaded,
                           module |-> e.module, args |-> e.args,
                           escalation_passed |-> esc.passed,
                           use_become |-> esc.use_become,
                           become_user |-> esc.become_user]
          /\ pc' = outcome
    /\ UNCHANGED render_rest

ParseNext == ParsePlaybook \/ DispatchTask

SpecParse == ParseInit /\ [][ParseNext]_vars

(***************************************************************************)
(* The line-editing module (modules/lineinfile.rs).  A file content is the *)
(* sequence of its pieces, a piece being a line break or the text of a     *)
(* line; the lines of a content are strings, the empty string included.    *)
(***************************************************************************)
MaxLines == 2

LineTexts == {"a=1", "a=2", "b"}
LinePatterns == {"^a=", "^b"}

\* Regex::is_match for the patterns and line texts of the model.
is_match(pattern, l) ==
    \/ pattern = "^a=" /\ l \in {"a=1", "a=2"}
    \/ pattern = "^b" /\ l = "b"

\* str::lines (lineinfile.rs 257): the content split at its line breaks,
\* without a last empty line.
RECURSIVE str_lines(_, _, _, _)
str_lines(content, i, cur, acc) ==
    IF i > Len(content)
    THEN IF cur # "" THEN Append(acc, cur) ELSE acc
    ELSE IF content[i] = "\n"
    THEN str_lines(content, i + 1, "", Append(acc, cur))
    ELSE str_lines(content, i + 1, cur \o content[i], acc)

\* lines.join("\n") (lineinfile.rs 317).
RECURSIVE join(_, _)
join(ls, i) ==
    IF i > Len(ls) THEN <<>>
    ELSE (IF i > 1 THEN <<"\n">> ELSE <<>>)
         \o (IF ls[i] # "" THEN <<ls[i]>> ELSE <<>>)
         \o join(ls, i + 1)

\* The content written back (lineinfile.rs 317-320).
write_back(ls) ==
    IF join(ls, 1) # <<>> /\ join(ls, 1)[Len(join(ls, 1))] # "\n"
    THEN Append(join(ls, 1), "\n")
    ELSE join(ls, 1)

\* The index of the first line a pattern matches, 0 when there is none.
first_match(ls, pattern) ==
    IF \E i \in 1..Len(ls) : is_match(pattern, ls[i])
    THEN CHOOSE i \in 1..Len(ls) :
            /\ is_match(pattern, ls[i])
            /\ \A j \in 1..(i - 1) : ~is_match(pattern, ls[j])
    ELSE 0

\* Vec::insert at a 0-based position.
vec_insert(ls, pos, l) ==
    SubSeq(ls, 1, pos) \o <<l>> \o SubSeq(ls, pos + 1, Len(ls))

\* Vec::retain.
RECURSIVE retain_not_matching(_, _, _)
retain_not_matching(ls, pattern, i) ==
    IF i > Len(ls) THEN <<>>
    ELSE (IF is_match(pattern, ls[i]) THEN <<>> ELSE <<ls[i]>>)
         \o retain_not_matching(ls, pattern, i + 1)

RECURSIVE retain_not_equal(_, _, _)
retain_not_equal(ls, l, i) ==
    IF i > Len(ls) THEN <<>>
    ELSE (IF ls[i] = l THEN <<>> ELSE <<ls[i]>>)
         \o retain_not_equal(ls, l, i + 1)

\* insert_line (lineinfile.rs 327-370).
insert_line(ls, line_to_add, insertafter, insertbefore) ==
    IF insertafter.some
    THEN IF insertafter.value = "EOF"
         THEN Append(ls, line_to_add)
         ELSE IF first_match(ls, insertafter.value) # 0
         THEN vec_insert(ls, first_match(ls, insertafter.value), line_to_add)
         ELSE vec_insert(ls, Len(ls), line_to_add)
    ELSE IF insertbefore.some
    THEN IF insertbefore.value = "BOF"
         THEN vec_insert(ls, 0, line_to_add)
         ELSE IF first_match(ls, insertbefore.value) # 0
         THEN vec_insert(ls, first_match(ls, insertbefore.value) - 1,
                         line_to_add)
         ELSE vec_insert(ls, Len(ls), line_to_add)
    ELSE Append(ls, line_to_add)

\* The lines and the changed flag of state "present" (lineinfile.rs 261-291).
present(ls, l, regexp, insertafter, insertbefore) ==
    IF regexp.some
    THEN IF first_match(ls, regexp.value) # 0
         THEN IF ls[first_match(ls, regexp.value)] # l
              THEN [lines |-> [ls EXCEPT ![first_match(ls, regexp.value)] = l],
                    changed |-> TRUE]
              ELSE [lines |-> ls, changed |-> FALSE]
         ELSE [lines |-> insert_line(ls, l, insertafter, insertbefore),
               changed |-> TRUE]
    ELSE IF ~\E i \in 1..Len(ls) : ls[i] = l
    THEN [lines |-> insert_line(ls, l, insertafter, insertbefore),
          changed |-> TRUE]
    ELSE [lines |-> ls, changed |-> FALSE]

\* The lines and the changed flag of state "absent" (lineinfile.rs 292-310),
\* for a call with a regexp or a line.
absent(ls, l, regexp) ==
    IF regexp.some
    THEN [lines |-> retain_not_matching(ls, regexp.value, 1),
          changed |-> Len(retain_not_matching(ls, regexp.value, 1)) # Len(ls)]
    ELSE [lines |-> retain_not_equal(ls, l.value, 1),
          changed |-> Len(retain_not_equal(ls, l.value, 1)) # Len(ls)]

LineErr(content, e) ==
    [ok |-> FALSE, changed |-> FALSE, content |-> content, error |-> e]

LineOk(m) ==
    [ok |-> TRUE, changed |-> m.changed, content |-> write_back(m.lines),
     error |-> ""]

\* process_line_modifications (lineinfile.rs 249-324): the result and the
\* content the call leaves; an error leaves the content as it was.
process_line_modifications(content, l, regexp, state, insertafter, insertbefore) ==
    IF state = "present"
    THEN IF ~l.some
         THEN LineErr(content, "'line' parameter is required when state=present")
         ELSE LineOk(present(str_lines(content, 1, "", <<>>), l.value, regexp,
                             insertafter, insertbefore))
    ELSE IF state = "absent"
    THEN IF ~regexp.some /\ ~l.some
         THEN LineErr(content, "Either 'line' or 'regexp' parameter is required when state=absent")
         ELSE LineOk(absent(str_lines(content, 1, "", <<>>), l, regexp))
    ELSE LineErr(content, "Invalid state")

\* A file of the host: whether it exists, its content, its mode and owner.
File(content) ==
    [exists |-> TRUE, content |-> content, mode |-> "umask", owner |-> "user"]
NoFile == [exists |-> FALSE, content |-> <<>>, mode |-> "", owner |-> ""]

\* The result of a call that was not made.
NotCalled == LineErr(<<>>, "not called")

\* execute_local (lineinfile.rs 49-123) on the file at `path` and its backup
\* copy; chown_ok is what the chown command answers.  The group is left
\* unset.  What the call returns and the two files as it leaves them; `call`
\* is what process_line_modifications returned.  fs::copy (81-86) gives the
\* backup the content and the mode of the file, never its owner: a backup
\* it creates belongs to the user of the process ("user"), one it overwrites
\* keeps the owner it had.
execute_local(file, backup_file, args, chown_ok) ==
    IF ~file.exists /\ ~args.create
    THEN [ok |-> FALSE, changed |-> FALSE, msg |-> "File does not exist and create=false",
          call |-> NotCalled, file |-> file, backup_file |-> backup_file]
    ELSE LET copied == IF args.backup /\ file.exists
                       THEN [exists |-> TRUE, content |-> file.content,
                             mode |-> file.mode,
                             owner |-> IF backup_file.exists
                                       THEN backup_file.owner ELSE "user"]
                       ELSE backup_file
             call == process_line_modifications(file.content, args.line,
                         args.regexp, args.state, args.insertafter,
                         args.insertbefore)
             written == [exists |-> TRUE, content |-> call.content,
                         mode |-> IF args.mode.some THEN args.mode.value
                                  ELSE IF file.exists THEN file.mode ELSE "umask",
                         owner |-> IF file.exists THEN file.owner ELSE "user"]
         IN  IF ~call.ok
             THEN [ok |-> FALSE, changed |-> FALSE, msg |-> call.error,
                   call |-> call, file |-> file, backup_file |-> copied]
             ELSE IF ~(call.changed \/ ~file.exists)
             THEN [ok |-> TRUE, changed |-> FALSE, msg |-> "unchanged",
                   call |-> call, file |-> file, backup_file |-> copied]
             ELSE IF args.owner.some /\ ~chown_ok
             THEN [ok |-> FALSE, changed |-> FALSE,
                   msg |-> "Failed to set ownership",
                   call |-> call, file |-> written, backup_file |-> copied]
             ELSE [ok |-> TRUE, changed |-> TRUE,
                   msg |-> IF ~file.exists THEN "created"
                           ELSE IF args.state = "present" THEN "added/updated"
                           ELSE "removed",
                   call |-> call,
                   file |-> IF args.owner.some
                            THEN [written EXCEPT !.owner = args.owner.value]
                            ELSE written,
                   backup_file |-> copied]

\* File contents of up to MaxLines lines, with or without a last line break.
FileContents ==
    {c \in UNION {[1..n -> LineTexts \cup {"\n"}] : n \in 0..(2 * MaxLines)} :
        /\ \A i \in 1..(Len(c) - 1) : c[i] = "\n" \/ c[i + 1] = "\n"
        /\ Len(str_lines(c, 1, "", <<>>)) <= MaxLines}

Files == {NoFile} \cup {File(c) : c \in FileContents}

LineArgs ==
    [line : {NoValue} \cup {Some(l) : l \in {"a=1", "b", ""}},
     regexp : {NoValue} \cup {Some(p) : p \in LinePatterns},
     state : {"present", "absent", "latest"},
     insertafter : {NoValue, Some("EOF"), Some("^b")},
     insertbefore : {NoValue, Some("BOF")},
     backup : BOOLEAN,
     create : BOOLEAN,
     mode : {NoValue, Some("644")},
     owner : {NoValue, Some("root")}]

LineInit ==
    /\ pc = "line_call"
    /\ \E file \in Files :
       \E args \in LineArgs :
       \E chown_ok \in IF args.owner.some THEN BOOLEAN ELSE {TRUE} :
          last_exec = [kind |-> "line_call", file |-> file,
                       backup_file |-> NoFile, args |-> args,
                       chown_ok |-> chown_ok]
    /\ fail_fast = FALSE
    /\ num_plays = 0
    /\ play_index = 0
    /\ tasks_started = 0
    /\ play = NullPlay
    /\ run_result = "none"
    /\ play_log = <<>>
    /\ inventory = Inventory_new
    /\ matched = NoMatch
    /\ PlayLocalsButExec

\* A run of the module on the local host (lineinfile.rs 433-447, 49-123).
ExecuteLocal ==
    /\ pc = "line_call"
    /\ \E r \in {execute_local(last_exec.file, last_exec.backup_file,
                               last_exec.args, last_exec.chown_ok)} :
          last_exec' = [kind |-> "line_once", file |-> r.file,
                        backup_file |-> r.backup_file,
                        args |-> last_exec.args,
                        chown_ok |-> last_exec.chown_ok,
                        before |-> last_exec.file,
                        first |-> r]
    /\ pc' = "line_once"
    /\ UNCHANGED render_rest

\* A second run of the module with the same arguments: it reads the file
\* the first run left.
ExecuteLocalAgain ==
    /\ pc = "line_once"
    /\ \E r \in {execute_local(last_exec.file, last_exec.backup_file,
                               last_exec.args, last_exec.chown_ok)} :
          last_exec' = [kind |-> "line_twice", file |-> r.file,
                        backup_file |-> r.backup_file,
                        args |-> last_exec.args,
                        chown_ok |-> last_exec.chown_ok,
                        before |-> last_exec.before,
                        first |-> last_exec.first,
                        second |-> r]
    /\ pc' = "line_twice"
    /\ UNCHANGED render_rest

LineNext == ExecuteLocal \/ ExecuteLocalAgain

SpecLine == LineInit /\ [][LineNext]_vars

(***************************************************************************)
(* Properties.                                                             *)
(***************************************************************************)
NumHosts == Len(play.hosts)

\* The host loop of the current task is over and its results are in.
TaskLoopOver == pc = "hosts" /\ hosts_done(host_index, play.hosts)

SomeResultFailed == \E i \in 1..Len(task_results) : task_results[i]

\* A step that executes a task (resp. a handler) on a host.
TaskStep == pc = "hosts" /\ Len(exec_log') = Len(exec_log) + 1
HandlerStep == pc = "handler_hosts" /\ Len(exec_log') = Len(exec_log) + 1

\* C1: when the host loop of a task is over with a failed result and the task
\* does not ignore errors, the play returns a failure at once, and from then
\* on nothing more of that play (no later task, no handler) is executed.
C1_AbortOnFailure ==
    [][/\ (TaskLoopOver /\ SomeResultFailed /\ ~task.ignore_errors
             => pc' = "play_done" /\ play_result' = "err" /\ exec_log' = exec_log)
       /\ (play_result = "err"
             => pc = "play_done" /\ pc' \in {"run", "done"} /\ exec_log' = <<>>)]_vars

\* C1 witness: a play failed on its first task on one of two hosts, with a
\* second task declared and a handler already notified.
C1_Witness ==
    /\ pc = "play_done"
    /\ play_result = "err"
    /\ NumHosts = 2
    /\ Cardinality(failed_hosts) = 1
    /\ task_index = 1
    /\ play.num_tasks = 2
    /\ notified_handlers # {}
    /\ Len(exec_log) = 2

\* C2: a connection error gives a failed TaskResult (no Err), a dispatch error
\* is turned by the play into a failed result; either marks only the host it
\* happened on and leaves the play running, and the play fails only after
\* every host of the list was attempted for the task, in order.
ConnectFailed(e) ==
    /\ ~is_local(Host(e.host))
    /\ e.oracle[1].cond = "true"
    /\ e.oracle[1].args = "ok"
    /\ e.oracle[1].connect = "fail"

DispatchFailed(e) == e.oracle[1].args = "err" \/ e.oracle[1].module = "err"

C2_ErrorsStayOnHost ==
    [][/\ (TaskStep /\ ConnectFailed(last_exec')
             => /\ last_exec'.ret.ok
                /\ last_exec'.results[1].failed
                /\ last_exec'.result.failed = ~task.ignore_errors)
       /\ (TaskStep /\ DispatchFailed(last_exec')
             => /\ ~last_exec'.ret.ok
                /\ last_exec'.result.failed
                /\ last_exec'.host \in failed_hosts')
       /\ (TaskStep
             => /\ failed_hosts' \subseteq failed_hosts \cup {play.hosts[host_index]}
                /\ task_results' = Append(task_results, last_exec'.result.failed)
                /\ pc' = "hosts"
                /\ play_result' = "none")
       /\ (play_result = "none" /\ play_result' = "err"
             => /\ Len(task_results) = NumHosts
                /\ Len(exec_log) >= NumHosts
                /\ \A i \in 1..NumHosts :
                      exec_log[Len(exec_log) - NumHosts + i] =
                          [kind |-> "task", index |-> task_index,
                           host |-> play.hosts[i]])]_vars

\* C2 witness: the first of two hosts could not be connected to, and the
\* second host was attempted all the same.
C2_Witness ==
    /\ TaskLoopOver
    /\ NumHosts = 2
    /\ task_results = <<TRUE, FALSE>>
    /\ failed_hosts = {"web1"}
    /\ play.hosts = <<"web1", "local">>
    /\ last_exec.host = "local"
    /\ ~task.ignore_errors

\* C6: a task with ignore_errors never fails the play, whatever failed in it:
\* after its host loop the play goes on to its next task or its handlers.
C6_IgnoreErrors ==
    [][/\ (TaskLoopOver /\ task.ignore_errors
             => pc' = "tasks" /\ play_result' = "none")
       /\ (TaskStep /\ task.ignore_errors /\ last_exec'.ret.ok
             => ~last_exec'.result.failed)]_vars

\* C6 witness: the module reported a failure on the last host for a task with
\* ignore_errors; a task is declared after it and a handler is notified.
C6_Witness ==
    /\ TaskLoopOver
    /\ task.ignore_errors
    /\ last_exec.oracle[1].cond = "true"
    /\ last_exec.oracle[1].module = "failed"
    /\ last_exec.results[1].failed
    /\ NumHosts = 2
    /\ task_index < play.num_tasks
    /\ notified_handlers # {}

\* C3: an execution whose `when` is false (a boolean false, or an expression
\* the evaluator finds false) never calls the module, and its TaskResult is
\* skipped, not changed and not failed.
WhenIsFalse(t, o) ==
    t.when = "bool_false" \/ (t.when = "expr" /\ o.cond = "false")

C3_SkipOnFalseWhen ==
    last_exec.kind = "task" =>
        \A i \in 1..Len(last_exec.trace) :
            WhenIsFalse(task, last_exec.oracle[i]) =>
                /\ ~last_exec.trace[i].dispatched
                /\ i <= Len(last_exec.results)
                /\ last_exec.results[i].skipped
                /\ ~last_exec.results[i].changed
                /\ ~last_exec.results[i].failed

\* C3 witness: a loop over two items whose first iteration was skipped by a
\* false `when` and whose second iteration called the module.
C3_Witness ==
    /\ last_exec.kind = "task"
    /\ task.loop_items.some
    /\ Len(last_exec.trace) = 2
    /\ WhenIsFalse(task, last_exec.oracle[1])
    /\ last_exec.results[1].skipped
    /\ last_exec.trace[2].dispatched

\* The task (resp. handler) executions of the current play, in order.
IsTaskEntry(x) == x.kind = "task"
IsHandlerEntry(x) == x.kind = "handler"
TaskEntries == SelectSeq(exec_log, IsTaskEntry)
HandlerEntries == SelectSeq(exec_log, IsHandlerEntry)

Runs(kind, index, host) ==
    Cardinality({k \in 1..Len(exec_log) :
                    exec_log[k] = [kind |-> kind, index |-> index, host |-> host]})

PlayReturnedOk == pc = "play_done" /\ play_result = "ok"

\* C4: a changed result of a task, and nothing else, notifies the names of its
\* notify list; no handler runs before every task has run on every host; and
\* in a play that returned Ok each declared handler has run exactly once on
\* each host if its name was notified and not at all otherwise.
C4_HandlersOncePerHost ==
    /\ [][TaskStep =>
            notified_handlers' = notified_handlers \cup
                (IF last_exec'.ret.ok /\ last_exec'.result.changed
                 THEN SeqToSet(task.notify) ELSE {})]_vars
    /\ [](\A k \in 1..Len(exec_log) :
             exec_log[k].kind = "handler" =>
                 /\ k > play.num_tasks * NumHosts
                 /\ \A t \in 1..play.num_tasks : \A h \in SeqToSet(play.hosts) :
                       Runs("task", t, h) = 1)
    /\ [](PlayReturnedOk =>
             \A j \in 1..Len(handlers) : \A h \in SeqToSet(play.hosts) :
                 Runs("handler", j, h) =
                     IF handlers[j] \in notified_handlers THEN 1 ELSE 0)

\* C4 witness: two tasks ran on two hosts, "restart" was notified and "reload"
\* was not; the play returned Ok after running "restart" once on each host.
C4_Witness ==
    /\ PlayReturnedOk
    /\ NumHosts = 2
    /\ play.num_tasks = 2
    /\ handlers = <<"reload", "restart">>
    /\ notified_handlers = {"restart"}
    /\ Len(exec_log) = 6

\* C5 (as claimed): a task evaluated on a host has, in the variables it is
\* executed with, every name a previous task of the play registered on that
\* host.
C5_RegisterVisibleLater ==
    last_exec.kind = "task" =>
        \A reg \in registered[last_exec.host] :
            reg[2] < last_exec.index => reg[1] \in DOMAIN last_exec.vars

\* C7: the execution of a handler, failed or not, leaves the play running and
\* unfailed; the handlers run in declared order, each notified one on every
\* host in host-list order, and a play that ran handlers returns Ok.
RECURSIVE ExpectedHandlerRuns(_)
ExpectedHandlerRuns(j) ==
    IF j = 0 THEN <<>>
    ELSE ExpectedHandlerRuns(j - 1) \o
         (IF handlers[j] \in notified_handlers
          THEN [i \in 1..NumHosts |->
                   [kind |-> "handler", index |-> j, host |-> play.hosts[i]]]
          ELSE <<>>)

C7_HandlerFailureIgnored ==
    /\ [][HandlerStep => pc' = "handler_hosts" /\ play_result' = "none"]_vars
    /\ [](pc = "handlers" =>
             HandlerEntries = ExpectedHandlerRuns(handler_index - 1))
    /\ [](pc = "handler_hosts" =>
             HandlerEntries = ExpectedHandlerRuns(handler_index - 1) \o
                 [i \in 1..(host_index - 1) |->
                     [kind |-> "handler", index |-> handler_index,
                      host |-> play.hosts[i]]])
    /\ [](pc \in {"recap", "play_done"} /\ play_result # "err" =>
             HandlerEntries = ExpectedHandlerRuns(Len(handlers)))
    /\ [](pc = "play_done" /\ HandlerEntries # <<>> => play_result = "ok")

\* C7 witness: the first of two notified handlers raised an error on the first
\* of two hosts; the second host and the second handler are still to come.
C7_Witness ==
    /\ pc = "handler_hosts"
    /\ last_exec.kind = "handler"
    /\ ~last_exec.ret.ok
    /\ NumHosts = 2
    /\ host_index = 2
    /\ handler_index = 1
    /\ handlers = <<"restart", "reload">>
    /\ notified_handlers = {"restart", "reload"}

\* C8: when Play::execute returns a failure, the run ends with that failure at
\* once if fail_fast is set (no later play is taken), and goes on to the next
\* play of the playbook if it is not; a run only ever fails this way.
C8_FailFast ==
    /\ [][pc = "play_done" /\ play_result = "err" =>
            IF fail_fast
            THEN pc' = "done" /\ run_result' = "err" /\ play_index' = play_index
            ELSE pc' = "run" /\ run_result' = "none"]_vars
    /\ [][pc = "done" => UNCHANGED vars]_vars
    /\ [](pc = "run" /\ play_index < num_plays => ENABLED (SkipPlay \/ BeginPlay))
    /\ [](run_result = "err" =>
             /\ fail_fast
             /\ pc = "done"
             /\ play_log[Len(play_log)] = "err"
             /\ \A i \in 1..(Len(play_log) - 1) : play_log[i] # "err")

\* C8 witness: without fail_fast the first play failed and the second play
\* has run to its end.
C8_Witness ==
    /\ ~fail_fast
    /\ play_log = <<"err", "ok">>
    /\ tasks_started = 2

\* C9: the executions of the tasks of a play follow the declared order of the
\* tasks and, within a task, the order of the host list: the k-th execution is
\* that of task (k-1) div H + 1 on host (k-1) mod H + 1 (H hosts), so a task
\* runs on every host before the next task runs on any; the recap lists the
\* hosts in the same order.
C9_TaskAndHostOrder ==
    /\ \A k \in 1..Len(TaskEntries) :
          TaskEntries[k] = [kind  |-> "task",
                            index |-> ((k - 1) \div NumHosts) + 1,
                            host  |-> play.hosts[((k - 1) % NumHosts) + 1]]
    /\ (pc = "hosts" =>
          Len(TaskEntries) = (task_index - 1) * NumHosts + (host_index - 1))
    /\ (pc \in {"tasks", "handlers", "handler_hosts", "recap"} =>
          Len(TaskEntries) = task_index * NumHosts)
    /\ (pc = "play_done" /\ play_result = "ok" =>
          /\ Len(TaskEntries) = play.num_tasks * NumHosts
          /\ Len(recap) = NumHosts
          /\ \A i \in 1..NumHosts : recap[i].host = play.hosts[i])

\* C9 witness: two tasks have run on the hosts local, web1 (in this order) and
\* the recap is printed.
C9_Witness ==
    /\ pc = "play_done"
    /\ play_result = "ok"
    /\ play.hosts = <<"local", "web1">>
    /\ Len(TaskEntries) = 4
    /\ Len(recap) = 2

\* C10: taking a play whose host list is empty starts nothing (no task, no
\* handler, no execution), fails nothing, whatever fail_fast says, and leaves
\* the run at the next play of the playbook.
C10_EmptyPlaySkipped ==
    [][pc = "run" /\ play_index' = play_index + 1 /\ play'.hosts = <<>> =>
          /\ pc' = "run"
          /\ run_result' = "none"
          /\ play_log' = Append(play_log, "skipped")
          /\ tasks_started' = tasks_started
          /\ exec_log' = exec_log
          /\ task_index' = task_index
          /\ handler_index' = handler_index]_vars

\* C10 witness: under fail_fast the first play matched no host and the second
\* play has run a task.
C10_Witness ==
    /\ fail_fast
    /\ play_log = <<"skipped", "ok">>
    /\ play_index = 2
    /\ tasks_started > 0
    /\ run_result = "none"

(***************************************************************************)
(* Loops (checked under SpecTask).                                         *)
(***************************************************************************)
LoopVar(t) == IF t.loop_var_name # NoName THEN t.loop_var_name ELSE "item"

\* The execution with the answers o reaches the module: its `when` is true,
\* its arguments render and, for a remote host, the connection is made.
ReachesModule(t, h, o) ==
    /\ ~WhenIsFalse(t, o)
    /\ o.cond # "err"
    /\ o.args = "ok"
    /\ (is_local(Host(h)) \/ o.connect = "ok")

\* C11 (as claimed): a loop over n items runs n iterations in list order,
\* the i-th with the loop variable bound to the i-th item, and the module is
\* called in each iteration that `when` does not skip (the host being one
\* that can be connected to).
C11_LoopOncePerItemAlways ==
    last_exec.kind = "task" /\ task.loop_items.some =>
        LET items == task.loop_items.items
            tr    == last_exec.trace
        IN  /\ Len(tr) = Len(items)
            /\ \A i \in 1..Len(tr) :
                  /\ tr[i].vars[LoopVar(task)] = items[i]
                  /\ (tr[i].dispatched <=>
                         /\ ~WhenIsFalse(task, last_exec.oracle[i])
                         /\ (is_local(Host(last_exec.host)) \/
                                last_exec.oracle[i].connect = "ok"))

\* C11 (amended): a loop over n items runs its iterations in list order, the
\* i-th with the loop variable bound to the i-th item, or to the index i - 1
\* when loop_control gives index_var the name of the loop variable; unless
\* an iteration raises an error every item gets its iteration, an iteration
\* that raises one is the last, and the module is called in each iteration
\* that `when` does not skip, whose arguments render and whose host can be
\* connected to.
C11_LoopOncePerItem ==
    last_exec.kind = "task" /\ task.loop_items.some =>
        LET items == task.loop_items.items
            tr    == last_exec.trace
        IN  /\ Len(tr) <= Len(items)
            /\ (last_exec.ret.ok => Len(tr) = Len(items) /\
                                    Len(last_exec.results) = Len(items))
            /\ \A i \in 1..Len(tr) :
                  /\ (task.index_var_name # LoopVar(task) =>
                         tr[i].vars[LoopVar(task)] = items[i])
                  /\ (task.index_var_name = LoopVar(task) =>
                         tr[i].vars[LoopVar(task)] = Num(i - 1))
                  /\ (tr[i].dispatched <=>
                         ReachesModule(task, last_exec.host, last_exec.oracle[i]))
                  /\ (i < Len(tr) => ~Raises(last_exec.oracle[i]))
            /\ (~last_exec.ret.ok =>
                   Len(tr) >= 1 /\ Raises(last_exec.oracle[Len(tr)]))

\* C11 witness: a loop over two items with loop_var "app"; the module ran
\* twice, first with app = "item1", then with app = "item2".
C11_Witness ==
    /\ last_exec.kind = "task"
    /\ task.loop_items = LoopOf(2)
    /\ task.loop_var_name = "app"
    /\ task.index_var_name = NoName
    /\ Len(last_exec.trace) = 2
    /\ last_exec.trace[1].dispatched /\ last_exec.trace[1].vars["app"] = "item1"
    /\ last_exec.trace[2].dispatched /\ last_exec.trace[2].vars["app"] = "item2"

\* C15: the variables of the i-th iteration are the task's variables with the
\* loop variable set to the i-th item and the index variable (if any) set to
\* i - 1, whatever the task's variables held under these names; nothing else
\* differs, and the task's variables are the same after the loop as before.
C15_LoopBindingsScoped ==
    last_exec.kind = "task" /\ task.loop_items.some =>
        LET items == task.loop_items.items
            tr    == last_exec.trace
            base  == last_exec.vars
            names == {LoopVar(task)} \cup
                     (IF task.index_var_name # NoName THEN {task.index_var_name}
                      ELSE {})
        IN  /\ host_vars = base
            /\ \A i \in 1..Len(tr) :
                  /\ DOMAIN tr[i].vars = DOMAIN base \cup names
                  /\ \A k \in DOMAIN tr[i].vars :
                        tr[i].vars[k] =
                            IF k = task.index_var_name THEN Num(i - 1)
                            ELSE IF k = LoopVar(task) THEN items[i]
                            ELSE base[k]

\* C15 witness: on web1 (whose variables hold app = "host_app") a loop over
\* two items with loop_var "app" and index_var "idx" has run; the second
\* iteration saw app = "item2", idx = 1, and afterwards app is "host_app" again and
\* idx is gone.
C15_Witness ==
    /\ last_exec.kind = "task"
    /\ last_exec.host = "web1"
    /\ task.loop_items = LoopOf(2)
    /\ task.loop_var_name = "app"
    /\ task.index_var_name = "idx"
    /\ Len(last_exec.trace) = 2
    /\ last_exec.trace[2].vars["app"] = "item2"
    /\ last_exec.trace[2].vars["idx"] = Num(1)
    /\ host_vars["app"] = "host_app"
    /\ "idx" \notin DOMAIN host_vars

(***************************************************************************)
(* Variable precedence (checked under SpecVars).                           *)
(***************************************************************************)
FactNames == {"ansible_hostname", "inventory_hostname", "ansible_host", "ansible_port"}

FactValue(k, host) ==
    CASE k = "ansible_hostname"   -> host.hostname
      [] k = "inventory_hostname" -> host.name
      [] k = "ansible_host"       -> host.hostname
      [] k = "ansible_port"       -> Num(host.port)
      [] OTHER                    -> "clock"

ContextBuilt == last_exec.kind = "context"

\* C12 (as claimed): a name defined by the play and by the host line holds
\* the play's value in the task's variables.
C12_PlayVarWins ==
    ContextBuilt =>
        \A k \in VarKeys :
            {"play", "host"} \subseteq last_exec.defs[k] =>
                host_vars[k] = play.vars[k]

\* C12 (amended): a name defined by the play and by the host line, other than
\* the four facts Play::execute injects, holds the host's explicit value.
C12_HostVarWins ==
    ContextBuilt =>
        \A k \in VarKeys \ FactNames :
            {"play", "host"} \subseteq last_exec.defs[k] =>
                host_vars[k] = last_exec.host.variables[k]

\* C12 witness: app is defined by the play and by the host line, and the
\* task's variables hold the host's value.
C12_Witness ==
    /\ ContextBuilt
    /\ last_exec.defs["app"] = {"play", "host"}
    /\ play.vars["app"] = "play_app"
    /\ host_vars["app"] = "host_app"

\* C13 (as claimed): any name defined by the host line, by a group of the
\* host and by the play at once holds the host's explicit value in the
\* task's variables.
C13_ExplicitWinsOfThreeAnyName ==
    ContextBuilt =>
        \A k \in VarKeys :
            last_exec.defs[k] = Layers =>
                host_vars[k] = last_exec.host.variables[k]

\* C13 (amended): a name, other than the four facts Play::execute injects
\* (ansible_hostname, inventory_hostname, ansible_host, ansible_port),
\* defined by the host line, by a group of the host and by the play at once
\* holds the host's explicit value; a fact of that name holds the engine's
\* value.
C13_ExplicitWinsOfThree ==
    ContextBuilt =>
        /\ \A k \in VarKeys \ FactNames :
               last_exec.defs[k] = Layers =>
                   /\ host_vars[k] = HostValue(k)
                   /\ host_vars[k] = last_exec.host.variables[k]
                   /\ get_variable(last_exec.host, k) = Some(host_vars[k])
        /\ \A k \in FactNames :
               last_exec.defs[k] = Layers =>
                   host_vars[k] = FactValue(k, last_exec.host)

\* C13 witness: app is defined at the three layers and holds "host_app"; the
\* group's value was refused by the host.
C13_Witness ==
    /\ ContextBuilt
    /\ last_exec.defs["app"] = Layers
    /\ "app" \notin DOMAIN last_exec.host.inherited_variables
    /\ host_vars["app"] = "host_app"

UserValue(k, d) ==
    IF "host" \in d[k] THEN HostValue(k)
    ELSE IF "play" \in d[k] THEN PlayValue(k)
    ELSE GroupValue(k)

\* C14 (as claimed): each of the five facts holds the engine's value in the
\* variables the arguments are rendered with, whatever the play or the host
\* defines under its name.
C14_FactsWin ==
    ContextBuilt =>
        \A k \in FactNames \cup {"ansible_date_time"} :
            last_exec.render_vars[k] = FactValue(k, last_exec.host)

\* C14 (amended): the four host facts hold the engine's value whatever the
\* play or the host defines under their names; ansible_date_time holds the
\* engine's value only when no variable of that name is defined, and the
\* defined value otherwise.
C14_HostFactsWin ==
    ContextBuilt =>
        /\ \A k \in FactNames :
              last_exec.render_vars[k] = FactValue(k, last_exec.host)
        /\ last_exec.render_vars["ansible_date_time"] =
              IF last_exec.defs["ansible_date_time"] = {} THEN "clock"
              ELSE UserValue("ansible_date_time", last_exec.defs)

\* C14 witness: the play defines ansible_hostname and ansible_date_time; the
\* first is rendered as the host's hostname, the second as the play's value.
C14_Witness ==
    /\ ContextBuilt
    /\ last_exec.defs["ansible_hostname"] = {"play"}
    /\ last_exec.defs["ansible_date_time"] = {"play"}
    /\ last_exec.render_vars["ansible_hostname"] = "web1"
    /\ last_exec.render_vars["ansible_date_time"] = "play_ansible_date_time"

(***************************************************************************)
(* Inventory inheritance.                                                  *)
(***************************************************************************)
Defines(h) == InvKey \in DOMAIN inventory.hosts[h].variables
Returned == matched.call = "returned"

\* C16: applying inheritance never changes a host's explicit variables, at
\* load or on the copies filter_hosts returns, and a lookup of a name the
\* host defines explicitly gives the explicit value.
C16_ExplicitKept ==
    [][/\ pc' = "inv_loaded" =>
            \A h \in InvHosts :
               /\ inventory'.hosts[h].variables = inventory.hosts[h].variables
               /\ Defines(h) =>
                     get_variable(inventory'.hosts[h], InvKey)
                         = Some(inventory.hosts[h].variables[InvKey])
       /\ pc' = "inv_filtered" /\ matched'.call = "returned" =>
            \A i \in DOMAIN matched'.hosts :
               LET h == matched'.hosts[i] IN
               /\ h.variables = inventory.hosts[h.name].variables
               /\ InvKey \in DOMAIN h.variables =>
                     get_variable(h, InvKey) = Some(h.variables[InvKey])]_vars

C16_Witness ==
    /\ pc = "inv_filtered" /\ Returned /\ matched.pattern = "g1"
    /\ \E i \in DOMAIN matched.hosts :
          /\ matched.hosts[i].name = "h1"
          /\ get_variable(matched.hosts[i], InvKey) = Some("host_" \o InvKey)
    /\ InvKey \in DOMAIN inventory.groups["all"].variables
    /\ InvKey \in DOMAIN inventory.groups["g1"].variables
    /\ inventory.hosts["h2"].inherited_variables # EmptyMap

\* C17: every pass only fills gaps: once the load is done, a host that does
\* not define the name itself holds the value "all" gave it in pass 1,
\* whatever its other groups define.
C17_PassTwoFillsGaps ==
    pc = "inv_loaded" =>
       \A h \in InvHosts :
          (/\ ~Defines(h)
           /\ InvKey \in DOMAIN inventory.groups["all"].variables
           /\ inventory.groups["all"].variables[InvKey] = GroupVar("all"))
          => inventory.hosts[h].inherited_variables[InvKey] = GroupVar("all")

\* C18: a second run of the inheritance (the one filter_hosts makes on its
\* copy of the loaded inventory) leaves every host with the inherited
\* variables the first run gave it.
C18_SecondRunSame ==
    (pc = "inv_filtered" /\ Returned) =>
       \A i \in DOMAIN matched.hosts :
          matched.hosts[i].inherited_variables
              = inventory.hosts[matched.hosts[i].name].inherited_variables

\* C19: one run gives a child group only variables its direct parent defined
\* itself before the run: what the parent takes from its own parent in the
\* same run does not reach the child.
C19_OnlyDirectParent ==
    [][pc' = "inv_loaded" =>
          \A c \in InvGroups :
             \A k \in DOMAIN inventory'.groups[c].variables :
                \/ /\ k \in DOMAIN inventory.groups[c].variables
                   /\ inventory'.groups[c].variables[k]
                         = inventory.groups[c].variables[k]
                \/ /\ inventory.groups[c].parent # NoParent
                   /\ LET parent == inventory.groups[inventory.groups[c].parent]
                      IN  /\ k \in DOMAIN parent.variables
                          /\ parent.variables[k] = inventory'.groups[c].variables[k]]_vars

\* C20: filter_hosts("all") on a loaded inventory returns, and returns each
\* host of the inventory exactly once.
C20_AllReturnsEachHostOnce ==
    (pc = "inv_filtered" /\ matched.pattern = "all") =>
       /\ Returned
       /\ \A h \in DOMAIN inventory.hosts :
             Cardinality({i \in DOMAIN matched.hosts : matched.hosts[i].name = h}) = 1
       /\ Len(matched.hosts) = Cardinality(DOMAIN inventory.hosts)

(***************************************************************************)
(* Host selection.                                                         *)
(***************************************************************************)
\* The groups at or below g in the children relation (mod.rs 70-72, 144-146),
\* as the least set closed under `children`.
RECURSIVE Descendants(_, _)
Descendants(inv, gs) ==
    LET more == gs \cup UNION {inv.groups[g].children \cap DOMAIN inv.groups : g \in gs}
    IN  IF more = gs THEN gs ELSE Descendants(inv, more)

\* What the pattern stands for: the inventory hosts listed by the group or a
\* group below it, else the host of that name, else nothing.
Selected(inv, pattern) ==
    IF pattern \in DOMAIN inv.groups
    THEN DOMAIN inv.hosts
            \cap UNION {inv.groups[g].hosts : g \in Descendants(inv, {pattern})}
    ELSE IF pattern \in DOMAIN inv.hosts THEN {pattern}
    ELSE {}

ReturnedNames == {matched.hosts[i].name : i \in DOMAIN matched.hosts}

\* C21: every filter_hosts call returns, and returns exactly the hosts the
\* pattern stands for (the members of the group and of its descendants, the
\* named host, or nothing), each once.
C21_FilterReturnsSelected ==
    pc = "inv_filtered" =>
       /\ Returned
       /\ ReturnedNames = Selected(inventory, matched.pattern)
       /\ Len(matched.hosts) = Cardinality(ReturnedNames)

\* C28: the value a host inherits at load does not depend on the order in
\* which apply_group_vars visits the groups: a host in two named groups that
\* define the name differently gets the same value under every order.
C28_OrderIndependent ==
    [][pc' = "inv_loaded" =>
          \A h \in InvHosts :
          \A go \in GroupOrders(inventory) :
          \A po \in ParentOrders(inventory) :
             apply_group_vars(inventory, go, po).hosts[h].inherited_variables
                 = inventory'.hosts[h].inherited_variables]_vars

\* C29: filter_hosts comes to an end for every inventory and pattern, a
\* children relation with a cycle included.
C29_FilterTerminates == matched.call # "overflow"

(***************************************************************************)
(* Loop results (checked under SpecTask).                                  *)
(***************************************************************************)
\* What the answers o make of one iteration's result.
IterChanged(t, h, o) ==
    ReachesModule(t, h, o) /\ o.module \in {"changed", "changed_failed"}

IterFailed(t, h, o) ==
    \/ ReachesModule(t, h, o) /\ o.module \in {"failed", "changed_failed"}
    \/ /\ ~WhenIsFalse(t, o) /\ o.cond # "err" /\ o.args = "ok"
       /\ ~is_local(Host(h)) /\ o.connect = "fail"

\* C27: the result a loop task returns is changed iff some iteration's
\* result is changed, and failed iff some iteration's result is failed and
\* ignore_errors is off; an iteration whose module reports a failure is
\* followed by the iterations of the remaining items.
C27_LoopAggregate ==
    last_exec.kind = "task" /\ task.loop_items.some =>
        LET items == task.loop_items.items
            tr    == last_exec.trace
            os    == last_exec.oracle
            h     == last_exec.host
        IN  /\ last_exec.ret.ok =>
                  /\ last_exec.result.changed
                        = (\E i \in 1..Len(items) : IterChanged(task, h, os[i]))
                  /\ last_exec.result.failed
                        = (/\ \E i \in 1..Len(items) : IterFailed(task, h, os[i])
                           /\ ~task.ignore_errors)
            /\ \A k \in 1..Len(tr) :
                  (k < Len(items) /\ ~Raises(os[k])) => Len(tr) > k

\* C27 witness: a loop over two items whose first iteration's module reports
\* a failure and whose second reports a change: both ran, and the result is
\* changed and failed.
C27_Witness ==
    /\ last_exec.kind = "task"
    /\ task.loop_items = LoopOf(2)
    /\ ~task.ignore_errors
    /\ last_exec.oracle[1].module = "failed"
    /\ last_exec.oracle[2].module = "changed"
    /\ last_exec.trace[1].dispatched /\ last_exec.trace[2].dispatched
    /\ last_exec.ret.ok
    /\ last_exec.result.changed /\ last_exec.result.failed

(***************************************************************************)
(* Rendering (checked under SpecRender).                                   *)
(***************************************************************************)
Rendered == last_exec.kind = "rendered"

\* The string is one that a further evaluation leaves as it is.
IsFixedPoint(s, context) ==
    LET r == tera_render(s, context, 1, <<>>) IN r.ok /\ r.s = s

\* C22: render_value makes at most 10 evaluations; a call that succeeds
\* returns a string that a further evaluation would not change, or has made
\* all 10 evaluations and written the warning; a call that makes all 10
\* succeeds.
C22_RenderToFixedPoint ==
    Rendered =>
       LET r == last_exec.ret
       IN  /\ r.passes <= MAX_TEMPLATE_RECURSION
           /\ r.ok => \/ IsFixedPoint(r.rendered, last_exec.context)
                      \/ r.passes = MAX_TEMPLATE_RECURSION /\ r.warned
           /\ r.passes = MAX_TEMPLATE_RECURSION => r.ok /\ r.warned

LoopResolved == last_exec.kind = "loop_items"

\* The string is one bare reference to a variable the context binds to a list.
BareListReference(s, context) ==
    /\ Len(trim(s)) = 1
    /\ trim(s)[1] \in ExprPieces /\ ~has_filter(trim(s)[1])
    /\ var_of(trim(s)[1]) \in DOMAIN context
    /\ context[var_of(trim(s)[1])].kind = "sequence"

\* C23: a literal list is the loop's items as it is.  A string gives the
\* list its bare variable reference is bound to; else the list its full
\* rendering yields; else, when it holds no expression, itself as the only
\* item; and in every other case an error.
C23_LoopSource ==
    LoopResolved =>
       LET src == last_exec.items
           ctx == last_exec.context
           ret == last_exec.ret
       IN  IF src.kind = "sequence" THEN ret.ok /\ ret.items = src.items
           ELSE IF BareListReference(src.s, ctx)
           THEN ret.ok /\ ret.items = ctx[var_of(trim(src.s)[1])].items
           ELSE LET r == render_value(src.s, ctx, FALSE)
                IN  IF r.ok /\ r.value.kind = "sequence"
                    THEN ret.ok /\ ret.items = r.value.items
                    ELSE IF ~contains_expr(src.s)
                    THEN ret.ok /\ ret.items = <<src.s>>
                    ELSE ~ret.ok

\* C23 witness: the source "{{ a }}" where a is the string "{{ b }}" and b
\* the list [x, y]: the lookup of a gives no list, the rendering does.
C23_Witness ==
    /\ LoopResolved
    /\ last_exec.items = Str(<<"{{ a }}">>)
    /\ "a" \in DOMAIN last_exec.context /\ "b" \in DOMAIN last_exec.context
    /\ last_exec.context["a"] = Str(<<"{{ b }}">>)
    /\ last_exec.context["b"] = ListXY
    /\ last_exec.ret.ok
    /\ last_exec.ret.items = <<<<"x">>, <<"y">>>>

(***************************************************************************)
(* Rendering failures in a task (checked under SpecRender).                *)
(***************************************************************************)
Templated == last_exec.kind = "templated"

\* resolve_args renders the argument as a string for template.content and
\* debug.msg (task.rs 770-790).
ForcedString ==
    \/ last_exec.module = "template" /\ last_exec.key = "content"
    \/ last_exec.module = "debug" /\ last_exec.key = "msg"

\* The i-th execution of the task came to its arguments and the rendering
\* of the argument fails with the variables of that execution.
ArgRenderFails(i) ==
    /\ last_exec.trace[i].cond = "true"
    /\ ~render_value(last_exec.arg, last_exec.trace[i].vars, ForcedString).ok

\* The when condition does not render with the variables of the i-th
\* execution.
WhenFails(i) ==
    /\ last_exec.when_expr # NoWhen
    /\ ~render_value(<<last_exec.when_expr>>, last_exec.trace[i].vars, FALSE).ok

\* The task's loop source is a template that renders to no list, or not at
\* all.
LoopSourceFails ==
    /\ last_exec.source.kind = "string"
    /\ ~BareListReference(last_exec.source.s, last_exec.context)
    /\ contains_expr(last_exec.source.s)
    /\ LET r == render_value(last_exec.source.s, last_exec.context, FALSE)
       IN  ~r.ok \/ r.value.kind # "sequence"

\* C24: a task with an argument or a when condition that fails to render in
\* one of its executions (a filter on an undefined variable included), or
\* with a loop source that gives no list, comes back failed, and no
\* execution calls the module with an argument that failed to render.
C24_RenderFailureFailsTask ==
    Templated =>
        /\ (\/ LoopSourceFails
            \/ \E i \in DOMAIN last_exec.trace : ArgRenderFails(i) \/ WhenFails(i))
           => last_exec.result.failed
        /\ \A i \in DOMAIN last_exec.trace :
              ArgRenderFails(i) => ~last_exec.trace[i].dispatched

\* A dispatch of the task of a loaded play, and what the documents set.
Dispatched25 == last_exec.kind = "dispatched"
Sets(map, k) == mapping_get(map, Key(k)).t # "none"

\* C25: the escalation a task is dispatched with is the task's own setting
\* whenever the task sets one (become, become_user), and the play's default
\* only when the task sets none.
C25_TaskSettingWins ==
    Dispatched25 =>
        /\ Sets(last_exec.task_map, "become") =>
              last_exec.use_become =
                  (mapping_get(last_exec.task_map, Key("become")).s = "true")
        /\ Sets(last_exec.task_map, "become_user") =>
              last_exec.become_user =
                  mapping_get(last_exec.task_map, Key("become_user")).s
        /\ (~Sets(last_exec.task_map, "become")
               /\ ~Sets(last_exec.task_map, "become_user")) =>
              /\ last_exec.use_become =
                    (mapping_get(last_exec.play_map, Key("become")).s = "true")
              /\ (last_exec.use_become /\ Sets(last_exec.play_map, "become_user"))
                    => last_exec.become_user =
                          mapping_get(last_exec.play_map, Key("become_user")).s

\* A finished load of a playbook, the keys of its task that are not task
\* fields, in document order, and the arguments a module value stands for.
Loaded26 == last_exec.kind = "parsed"
NonReserved(map) ==
    {i \in 1..Len(map) :
        ~(map[i].key.t = "str" /\ map[i].key.s \in task_fields)}
StringNonReserved(map) == {i \in NonReserved(map) : map[i].key.t = "str"}
First(S) == CHOOSE i \in S : \A j \in S : i <= j
Arguments(e) ==
    IF e.value.t = "map" THEN mapping_of(e.value)
    ELSE <<Entry(Key(IF e.key.s = "debug" THEN "msg" ELSE "_raw_params"),
                 e.value)>>

\* C26: parse_task takes as module id the first key, in document order, that
\* is not in the reserved set, takes that key's value as the arguments and
\* ignores every later non-reserved key; a task with no non-reserved key makes
\* the whole playbook load fail.
C26_FirstNonReservedKey ==
    Loaded26 =>
        IF NonReserved(last_exec.task_map) = {}
        THEN ~last_exec.loaded.ok
        ELSE /\ last_exec.loaded.ok
             /\ \E e \in {last_exec.task_map[
                              First(NonReserved(last_exec.task_map))]} :
                   /\ last_exec.loaded.plays[1].tasks[1].module = e.key.s
                   /\ last_exec.loaded.plays[1].tasks[1].args = Arguments(e)

\* C26 (amended): for a task with a string name, parse_task takes as module
\* id the first string key, in document order, that is not in the reserved
\* set and, when that key is not empty and its value is a string or a mapping,
\* takes the value as the arguments and ignores every later non-reserved key;
\* in every other case the whole playbook load fails.
C26_FirstStringNonReservedKey ==
    Loaded26 =>
        IF /\ mapping_get(last_exec.task_map, Key("name")).t = "str"
           /\ StringNonReserved(last_exec.task_map) # {}
           /\ \E e \in {last_exec.task_map[
                            First(StringNonReserved(last_exec.task_map))]} :
                 e.key.s # "" /\ e.value.t \in {"str", "map"}
        THEN /\ last_exec.loaded.ok
             /\ \E e \in {last_exec.task_map[
                              First(StringNonReserved(last_exec.task_map))]} :
                   /\ last_exec.loaded.plays[1].tasks[1].module = e.key.s
                   /\ last_exec.loaded.plays[1].tasks[1].args = Arguments(e)
        ELSE ~last_exec.loaded.ok

\* A loaded task with two module keys, the first of them after a task field.
C26_Witness ==
    /\ Loaded26
    /\ last_exec.loaded.ok
    /\ Cardinality(StringNonReserved(last_exec.task_map)) >= 2
    /\ First(StringNonReserved(last_exec.task_map)) > 1
    /\ last_exec.loaded.plays[1].tasks[1].module =
          last_exec.task_map[First(StringNonReserved(last_exec.task_map))].key.s

\* A run of the module in which process_line_modifications returned a result,
\* and that function applied once more, with the same arguments, to the
\* content it produced.
Applied == last_exec.kind = "line_once" /\ last_exec.first.call.ok
SecondApplication ==
    process_line_modifications(last_exec.first.call.content,
        last_exec.args.line, last_exec.args.regexp, last_exec.args.state,
        last_exec.args.insertafter, last_exec.args.insertbefore)

\* C30: applying process_line_modifications with state "present" (or
\* "absent") a second time to the content produced by the first application
\* reports changed = false and leaves the content identical.
C30_Idempotent ==
    Applied =>
        /\ SecondApplication.ok
        /\ ~SecondApplication.changed
        /\ SecondApplication.content = last_exec.first.call.content

====
